---- MODULE Spec2Model ----
(***************************************************************************)
(* Prisoner lifecycle and workflow engine of prison-management-backend:    *)
(* the prisoner, prison, behaviour-record and visit services over the      *)
(* relational store.  A handler run alone is one action; for the handlers  *)
(* whose concurrent behaviour is studied, a second set of actions splits   *)
(* the handler at its store reads and its committing write.                *)
(***************************************************************************)
EXTENDS Integers, Sequences, FiniteSets, TLC

\* ------------------------------------------------------------------ bounds
NumPrisons == 2
NumProcs == 2
MaxCapacity == 1
MaxPrisoners == 2
MaxDay == 2
MaxBehaviours == 2
MaxVisits == 2
MaxWorks == 2
MaxHours == 2
MaxBatch == 2
MaxDate == 2
MaxTime == 2
NumVisitors == 1
NumUsers == 1

\* ------------------------------------------------------- program constants
ACTIVE == "Active"
RELEASED == "Released"
TRANSFERRED == "Transferred"
DECEASED == "Deceased"
PRISONER_STATUS == {ACTIVE, RELEASED, TRANSFERRED, DECEASED}

POSITIVE == "Positive"
NEGATIVE == "Negative"
BEHAVIOUR_TYPE == {POSITIVE, NEGATIVE}

PENDING == "Pending"
APPROVED == "Approved"
REJECTED == "Rejected"
NOT_APPLICABLE == "N/A"

SCHEDULED == "Scheduled"
COMPLETED == "Completed"
CANCELLED == "Cancelled"
VISIT_STATUS == {SCHEDULED, COMPLETED, CANCELLED}

PAYMENT_PENDING == "Pending"
PAID == "Paid"

SUPER_ADMIN == "Super Admin"
PRISON_ADMIN == "Prison Admin"
OFFICER == "Officer"
USER_ROLES == {SUPER_ADMIN, PRISON_ADMIN, OFFICER}

\* A nullable column holds <<>> (null) or <<v>>.
Null == <<>>
Some(v) == <<v>>

PrisonIds == 1..NumPrisons
PrisonerIds == 1..MaxPrisoners
\* req.user: the role name and the prison the user is assigned to (0: none).
\* A Super Admin, the Prison Admin of each prison, an Officer of prison 1 and
\* a Prison Admin assigned to no prison.
Callers ==
    {[role |-> SUPER_ADMIN, prisonId |-> 0], [role |-> OFFICER, prisonId |-> 1],
     [role |-> PRISON_ADMIN, prisonId |-> 0]}
    \cup {[role |-> PRISON_ADMIN, prisonId |-> q] : q \in PrisonIds}

\* The users table when every account is active.
Staff == [c \in Callers |-> [prison_id |-> c.prisonId, is_active |-> TRUE]]

VARIABLES
    today,      \* the calendar day new Date() falls on
    tz,         \* the server's UTC offset in hours (process time zone)
    prisons,    \* prisons table: prison_id -> row
    prisoners,  \* prisoners table: prisoner_id -> row
    behaviours, \* prisoner_behaviour_records table: behaviour_id -> row
    visits,     \* visits table: visit_id -> row
    users,      \* users table: the account of each caller -> row
    works,      \* prisoner_work_records table: work_record_id -> row
    reqs,       \* requests in flight: the handler's position and its locals
    last        \* the handler that ran last and what it returned or threw

vars ==
    <<today, tz, users, prisons, prisoners, behaviours, visits, works, reqs, last>>
store == <<users, prisons, prisoners, behaviours, visits, works>>

OK == "ok"
NoRows == <<>>
NoRequest ==
    [op |-> "", pc |-> "idle", caller |-> [role |-> "", prisonId |-> 0],
     data |-> Null, row |-> Null, other |-> Null, outcome |-> ""]
Done(op, id, outcome) ==
    [op |-> op, id |-> id, arg |-> 0, outcome |-> outcome]

\* ------------------------------------------------------------ access check
checkPrisonAccess(userPrisonId, prisonerPrisonId, userRole) ==
    IF userRole = SUPER_ADMIN THEN TRUE ELSE userPrisonId = prisonerPrisonId

\* db.Prisoner.count({where: {prison_id, status: 'Active'}})
ActiveCount(tbl, prisonId) ==
    Cardinality({p \in DOMAIN tbl :
                    tbl[p].prison_id = prisonId /\ tbl[p].status = ACTIVE})

\* The next auto-increment key of a table whose keys are 1..n.
NextId(tbl) == Cardinality(DOMAIN tbl) + 1

\* instance.update(values): the given attributes are set, the others kept.
UpdateRow(row, values) ==
    [f \in DOMAIN row |-> IF f \in DOMAIN values THEN values[f] ELSE row[f]]

\* save() of an instance that was read earlier: no statement when update()
\* changed nothing on the instance, else an UPDATE of the attributes given.
SaveRow(tbl, id, snapshot, values) ==
    IF \A f \in DOMAIN values : values[f] = snapshot[f] THEN tbl
    ELSE IF id \in DOMAIN tbl THEN [tbl EXCEPT ![id] = UpdateRow(@, values)]
    ELSE tbl

\* ------------------------------------------------------------ registerPrisoner
\* The prison a new prisoner goes to, were the body's prison_id read for
\* every caller.
RegisterPrisonIdOfBody(data, caller) ==
    IF data.prison_id # 0
    THEN data.prison_id ELSE caller.prisonId

\* The prison a new prisoner goes to (0: none could be determined).
RegisterPrisonId(data, caller) ==
    IF caller.role = SUPER_ADMIN /\ data.prison_id # 0
    THEN data.prison_id ELSE caller.prisonId

\* The rows findOne({where: {[Op.or]: [{nic}, {case_number}]}}) may return.
DuplicateRows(tbl, data) ==
    {p \in DOMAIN tbl :
        tbl[p].nic = data.nic \/ tbl[p].case_number = data.case_number}

DuplicateError(row, data) ==
    IF row.nic = data.nic THEN "Prisoner with this NIC already exists"
    ELSE "Prisoner with this case number already exists"

NewPrisoner(data, prisonId) ==
    [nic |-> data.nic, case_number |-> data.case_number,
     expected_release_date |-> data.expected_release_date,
     actual_release_date |-> Null,
     status |-> ACTIVE, prison_id |-> prisonId]

UniqueViolationNever(tbl, row) == FALSE

\* The unique indexes on prisoners.nic and prisoners.case_number.
UniqueViolation(tbl, row) ==
    \E p \in DOMAIN tbl :
        tbl[p].nic = row.nic \/ tbl[p].case_number = row.case_number

CapacityReached(activePrisoners, capacity) == activePrisoners >= capacity

\* What registerPrisoner returns or throws on the rows it reads.
RegisterOutcomes(data, caller) ==
    LET prisonId == RegisterPrisonId(data, caller)
    IN  IF prisonId = 0 THEN {"Prison ID is required"}
        ELSE IF prisonId \notin DOMAIN prisons THEN {"Prison not found"}
        ELSE IF CapacityReached(ActiveCount(prisoners, prisonId),
                                prisons[prisonId].capacity)
             THEN {"Prison has reached maximum capacity"}
        ELSE IF DuplicateRows(prisoners, data) # {}
             THEN {DuplicateError(prisoners[e], data) :
                      e \in DuplicateRows(prisoners, data)}
        ELSE {OK}

registerPrisoner(data, caller) ==
    LET id == NextId(prisoners)
    IN  /\ \E o \in RegisterOutcomes(data, caller) :
            IF o = OK
            THEN /\ id <= MaxPrisoners
                 /\ prisoners' =
                      (id :> NewPrisoner(data, RegisterPrisonId(data, caller)))
                      @@ prisoners
                 /\ last' = Done("registerPrisoner", id, OK)
            ELSE /\ UNCHANGED prisoners
                 /\ last' = Done("registerPrisoner", 0, o)
        /\ UNCHANGED <<today, tz, users, works, prisons, behaviours, visits, reqs>>

\* -------------------------------------------------------------- updatePrisoner
\* updateData is the request body: a record of the attributes it carries.
Has(data, f) == f \in DOMAIN data

UpdatePrisonerOutcome(id, data, caller) ==
    IF id \notin DOMAIN prisoners THEN "Prisoner not found"
    ELSE IF ~checkPrisonAccess(caller.prisonId, prisoners[id].prison_id,
                               caller.role)
         THEN "You do not have access to this prisoner"
    ELSE IF /\ Has(data, "nic") /\ data.nic # prisoners[id].nic
            /\ \E q \in DOMAIN prisoners : q # id /\ prisoners[q].nic = data.nic
         THEN "Prisoner with this NIC already exists"
    ELSE IF /\ Has(data, "case_number")
            /\ data.case_number # prisoners[id].case_number
            /\ \E q \in DOMAIN prisoners :
                  q # id /\ prisoners[q].case_number = data.case_number
         THEN "Prisoner with this case number already exists"
    ELSE OK

\* After the commit the handler returns getPrisonerById(prisonerId,
\* userPrisonId, userRole), still inside the try.  When that read throws, the
\* catch calls rollback() on the committed transaction, which throws in turn,
\* and this last error is the one the caller gets.
ROLLBACK_FINISHED ==
    "Transaction cannot be rolled back because it has been finished with state: commit"

UpdatePrisonerResponse(id, data, caller) ==
    LET o == UpdatePrisonerOutcome(id, data, caller)
    IN  IF o # OK THEN o
        ELSE IF ~checkPrisonAccess(caller.prisonId,
                                   UpdateRow(prisoners[id], data).prison_id,
                                   caller.role)
             THEN ROLLBACK_FINISHED
        ELSE OK

updatePrisoner(id, data, caller) ==
    LET o == UpdatePrisonerOutcome(id, data, caller)
    IN  /\ prisoners' = IF o = OK
                        THEN [prisoners EXCEPT ![id] = UpdateRow(@, data)]
                        ELSE prisoners
        /\ last' = Done("updatePrisoner", id,
                        UpdatePrisonerResponse(id, data, caller))
        /\ UNCHANGED <<today, tz, users, works, prisons, behaviours, visits, reqs>>

\* -------------------------------------------------------------- deletePrisoner
MayManage(role) == role = PRISON_ADMIN \/ role = SUPER_ADMIN

DeletePrisonerOutcome(id, caller) ==
    IF ~MayManage(caller.role)
    THEN "Only Prison Admin or Super Admin can delete prisoners"
    ELSE IF id \notin DOMAIN prisoners THEN "Prisoner not found"
    ELSE IF ~checkPrisonAccess(caller.prisonId, prisoners[id].prison_id,
                               caller.role)
         THEN "You do not have access to this prisoner"
    ELSE OK

DeleteStatus(reason) == IF reason = "deceased" THEN DECEASED ELSE RELEASED

deletePrisoner(id, reason, caller) ==
    LET o == DeletePrisonerOutcome(id, caller)
    IN  /\ prisoners' =
             IF o = OK
             THEN [prisoners EXCEPT ![id] =
                     UpdateRow(@, [status |-> DeleteStatus(reason),
                                   actual_release_date |-> Some(today)])]
             ELSE prisoners
        /\ last' = Done("deletePrisoner", id, o)
        /\ UNCHANGED <<today, tz, users, works, prisons, behaviours, visits, reqs>>

\* ------------------------------------------------------------ transferPrisoner
TransferOutcome(id, targetPrisonId, caller) ==
    IF ~MayManage(caller.role)
    THEN "Only Prison Admin or Super Admin can transfer prisoners"
    ELSE IF id \notin DOMAIN prisoners THEN "Prisoner not found"
    ELSE IF ~checkPrisonAccess(caller.prisonId, prisoners[id].prison_id,
                               caller.role)
         THEN "You do not have access to this prisoner"
    ELSE IF targetPrisonId \notin DOMAIN prisons THEN "Target prison not found"
    ELSE IF CapacityReached(ActiveCount(prisoners, targetPrisonId),
                            prisons[targetPrisonId].capacity)
         THEN "Target prison has reached maximum capacity"
    ELSE OK

TransferValues(targetPrisonId) ==
    [prison_id |-> targetPrisonId, status |-> ACTIVE]

transferPrisoner(id, targetPrisonId, caller) ==
    LET o == TransferOutcome(id, targetPrisonId, caller)
    IN  /\ prisoners' =
             IF o = OK
             THEN [prisoners EXCEPT ![id] =
                     UpdateRow(@, TransferValues(targetPrisonId))]
             ELSE prisoners
        /\ last' = [Done("transferPrisoner", id, o) EXCEPT !.arg = targetPrisonId]
        /\ UNCHANGED <<today, tz, users, works, prisons, behaviours, visits, reqs>>

\* ------------------------------------------------------------- releasePrisoner
ReleaseOutcome(id, caller) ==
    IF ~MayManage(caller.role)
    THEN "Only Prison Admin or Super Admin can release prisoners"
    ELSE IF id \notin DOMAIN prisoners THEN "Prisoner not found"
    ELSE IF ~checkPrisonAccess(caller.prisonId, prisoners[id].prison_id,
                               caller.role)
         THEN "You do not have access to this prisoner"
    ELSE IF prisoners[id].status = RELEASED THEN "Prisoner is already released"
    ELSE OK

releasePrisoner(id, caller) ==
    LET o == ReleaseOutcome(id, caller)
    IN  /\ prisoners' =
             IF o = OK
             THEN [prisoners EXCEPT ![id] =
                     UpdateRow(@, [status |-> RELEASED,
                                   actual_release_date |-> Some(today)])]
             ELSE prisoners
        /\ last' = Done("releasePrisoner", id, o)
        /\ UNCHANGED <<today, tz, users, works, prisons, behaviours, visits, reqs>>

\* ---------------------------------------------------------------- updatePrison
UpdatePrisonOutcomeUnchecked(prisonId, data, role) ==
    IF role # SUPER_ADMIN THEN "Only Super Admin can update prisons"
    ELSE IF prisonId \notin DOMAIN prisons THEN "Prison not found"
    ELSE IF Has(data, "capacity") /\ data.capacity < 0
         THEN "Capacity must be a positive number"
    ELSE OK

UpdatePrisonOutcome(prisonId, data, role) ==
    IF role # SUPER_ADMIN THEN "Only Super Admin can update prisons"
    ELSE IF prisonId \notin DOMAIN prisons THEN "Prison not found"
    ELSE IF Has(data, "capacity") /\ data.capacity < 0
         THEN "Capacity must be a positive number"
    ELSE IF /\ Has(data, "capacity")
            /\ data.capacity < ActiveCount(prisoners, prisonId)
         THEN "Cannot reduce capacity below current occupancy"
    ELSE OK

updatePrison(prisonId, data, role) ==
    LET o == UpdatePrisonOutcome(prisonId, data, role)
    IN  /\ prisons' = IF o = OK
                      THEN [prisons EXCEPT ![prisonId] = UpdateRow(@, data)]
                      ELSE prisons
        /\ last' = Done("updatePrison", prisonId, o)
        /\ UNCHANGED <<today, tz, users, works, prisoners, behaviours, visits, reqs>>

\* ---------------------------------------------------------------- deletePrison
\* The columns of the prisoners table that the model keeps.
PrisonerColumns ==
    {"nic", "case_number", "expected_release_date", "actual_release_date",
     "status", "prison_id"}

\* Prisoner.count({where: {prison_id: prisonId, <column>: value}}).  The key
\* of a where clause goes into the statement as a column name; the database
\* rejects the statement when the table has no such column (Null).
CountWhere(tbl, prisonId, column, value) ==
    IF column \notin PrisonerColumns THEN Null
    ELSE Some(Cardinality({p \in DOMAIN tbl : /\ tbl[p].prison_id = prisonId
                                              /\ tbl[p][column] = value}))

\* User.count({where: {prison_id: prisonId, is_active: true}})
ActiveUsers(prisonId) ==
    Cardinality({u \in DOMAIN users : /\ users[u].prison_id = prisonId
                                      /\ users[u].is_active})

UnknownColumn == "Unknown column 'prisoner_status' in 'where clause'"

DeletePrisonOutcome(prisonId, role) ==
    IF role # SUPER_ADMIN THEN "Only Super Admin can delete prisons"
    ELSE IF prisonId \notin DOMAIN prisons THEN "Prison not found"
    ELSE LET activePrisoners ==
                 CountWhere(prisoners, prisonId, "prisoner_status", ACTIVE)
         IN  IF activePrisoners = Null THEN UnknownColumn
             ELSE IF activePrisoners[1] > 0
                  THEN "Cannot delete prison with active prisoners"
             ELSE IF ActiveUsers(prisonId) > 0
                  THEN "Cannot delete prison with active staff members"
             ELSE OK

deletePrison(prisonId, role) ==
    LET o == DeletePrisonOutcome(prisonId, role)
    IN  /\ prisons' = IF o = OK
                      THEN [prisons EXCEPT ![prisonId].is_active = FALSE]
                      ELSE prisons
        /\ last' = Done("deletePrison", prisonId, o)
        /\ UNCHANGED <<today, tz, users, works, prisoners, behaviours, visits,
                       reqs>>

\* ------------------------------------------------------- behaviour records
BehaviourIds == 1..MaxBehaviours

\* A row that destroy() removed stays in the table as a tombstone, so that
\* the auto-increment key is not given out again.
DESTROYED == "(destroyed)"
BehaviourFound(id) ==
    id \in DOMAIN behaviours /\ behaviours[id].adjustment_status # DESTROYED
TypeError == "TypeError: Cannot read properties of undefined"

\* The prisoner row a findByPk loads with include {as: 'prisoner',
\* attributes}: the listed attributes and nothing else (no nested prison).
IncludedPrisoner(prisonerId, attributes) ==
    [f \in attributes |-> prisoners[prisonerId][f]]

\* adjustment_status is ENUM('Pending', 'Approved', 'Rejected'): what the
\* column holds after a write of `value`, by the store's handling of a value
\* outside the list (rejected, kept as written, or replaced by '').
EnumStored(value) ==
    IF value \in {PENDING, APPROVED, REJECTED} THEN {Some(value)}
    ELSE {Null, Some(value), Some("")}

\* JavaScript truthiness of a number.
Truthy(n) == n # 0

CreateAdjustmentStatus(data) ==
    IF Truthy(data.sentence_adjustment_days)
          /\ data.sentence_adjustment_days # 0
    THEN PENDING ELSE NOT_APPLICABLE

CreateBehaviourOutcome(data, caller) ==
    IF data.prisoner_id \notin DOMAIN prisoners THEN "Prisoner not found"
    ELSE IF prisoners[data.prisoner_id].status # ACTIVE
         THEN "Behaviour records can only be created for active prisoners"
    ELSE IF ~checkPrisonAccess(caller.prisonId,
                               prisoners[data.prisoner_id].prison_id,
                               caller.role)
         THEN "You do not have access to this prisoner"
    ELSE OK

NewBehaviour(data, status) ==
    [prisoner_id |-> data.prisoner_id, behaviour_type |-> data.behaviour_type,
     sentence_adjustment_days |-> data.sentence_adjustment_days,
     adjustment_status |-> status, adjustment_approved_at |-> Null]

createBehaviourRecord(data, caller) ==
    LET o == CreateBehaviourOutcome(data, caller)
        id == NextId(behaviours)
    IN  /\ IF o # OK
           THEN /\ UNCHANGED behaviours
                /\ last' = Done("createBehaviourRecord", 0, o)
           ELSE \E stored \in EnumStored(CreateAdjustmentStatus(data)) :
                   IF stored = Null
                   THEN /\ UNCHANGED behaviours
                        /\ last' = Done("createBehaviourRecord", 0,
                                        "Data truncated for column")
                   ELSE /\ id <= MaxBehaviours
                        /\ behaviours' =
                             (id :> NewBehaviour(data, stored[1])) @@ behaviours
                        /\ last' = Done("createBehaviourRecord", id, OK)
        /\ UNCHANGED <<today, tz, users, works, prisons, prisoners, visits, reqs>>

\* updateBehaviourRecord reads behaviourRecord.prisoner.prison.prison_id of
\* a prisoner loaded with attributes ['prison_id'].
UpdateBehaviourLoaded == {"prison_id"}

\* The same checks with the access check made on the loaded prison_id, as
\* approveSentenceAdjustment makes it.
UpdateBehaviourOutcomeDirect(id, data, caller) ==
    IF ~BehaviourFound(id) THEN "Behaviour record not found"
    ELSE LET prisoner == IncludedPrisoner(behaviours[id].prisoner_id,
                                          UpdateBehaviourLoaded)
         IN  IF ~checkPrisonAccess(caller.prisonId, prisoner.prison_id,
                                   caller.role)
             THEN "You do not have access to this behaviour record"
             ELSE IF behaviours[id].adjustment_status = APPROVED
                  THEN "Cannot update behaviour record with approved sentence adjustment"
             ELSE OK

UpdateBehaviourOutcome(id, data, caller) ==
    IF ~BehaviourFound(id) THEN "Behaviour record not found"
    ELSE LET prisoner == IncludedPrisoner(behaviours[id].prisoner_id,
                                          UpdateBehaviourLoaded)
         IN  IF "prison" \notin DOMAIN prisoner THEN TypeError
             ELSE IF ~checkPrisonAccess(caller.prisonId,
                                        prisoner.prison.prison_id, caller.role)
                  THEN "You do not have access to this behaviour record"
             ELSE IF behaviours[id].adjustment_status = APPROVED
                  THEN "Cannot update behaviour record with approved sentence adjustment"
             ELSE OK

\* allowedUpdates: the attributes given, and the adjustment status that
\* follows from sentence_adjustment_days when that is one of them.
UpdateBehaviourValues(data) ==
    IF Has(data, "sentence_adjustment_days")
    THEN [f \in DOMAIN data \cup {"adjustment_status"} |->
            IF f = "adjustment_status"
            THEN (IF Truthy(data.sentence_adjustment_days)
                        /\ data.sentence_adjustment_days # 0
                  THEN PENDING ELSE NOT_APPLICABLE)
            ELSE data[f]]
    ELSE data

updateBehaviourRecord(id, data, caller) ==
    LET o == UpdateBehaviourOutcome(id, data, caller)
        values == UpdateBehaviourValues(data)
    IN  /\ IF o # OK
           THEN /\ UNCHANGED behaviours
                /\ last' = Done("updateBehaviourRecord", id, o)
           ELSE \E stored \in
                     IF Has(values, "adjustment_status")
                     THEN EnumStored(values.adjustment_status)
                     ELSE {Some(behaviours[id].adjustment_status)} :
                   IF stored = Null
                   THEN /\ UNCHANGED behaviours
                        /\ last' = Done("updateBehaviourRecord", id,
                                        "Data truncated for column")
                   ELSE /\ behaviours' =
                             [behaviours EXCEPT ![id] =
                                [UpdateRow(@, values)
                                    EXCEPT !.adjustment_status = stored[1]]]
                        /\ last' = Done("updateBehaviourRecord", id, OK)
        /\ UNCHANGED <<today, tz, users, works, prisons, prisoners, visits, reqs>>

\* expected_release_date is a DATEONLY read as 'YYYY-MM-DD'.  new Date(string)
\* is midnight UTC of that day (in hours since day 0); getDate and setDate
\* work on the server's local calendar; the Date written back is formatted
\* as the local day of that instant.
ParseDateOnly(day) == day * 24
LocalDay(instant, offset) == (instant + offset) \div 24
SetLocalDay(instant, offset, day) ==
    instant + (day - LocalDay(instant, offset)) * 24

AdjustedReleaseDate(day, adjustmentDays, offset) ==
    LET currentEndDate == ParseDateOnly(day)
        moved == SetLocalDay(currentEndDate, offset,
                             LocalDay(currentEndDate, offset) + adjustmentDays)
    IN  LocalDay(moved, offset)

\* Of the attributes the include lists (prisoner_id, prison_id, full_name,
\* expected_release_date), the two the handler reads.
ApproveLoaded == {"prison_id", "expected_release_date"}

\* The checks of approveSentenceAdjustment on the record and the prisoner
\* that findByPk returned.
ApproveChecks(record, prisoner, caller) ==
    IF ~checkPrisonAccess(caller.prisonId, prisoner.prison_id, caller.role)
    THEN "You do not have access to this behaviour record"
    ELSE IF record.adjustment_status # PENDING
         THEN "This behaviour record does not have a pending sentence adjustment"
    ELSE IF ~Truthy(record.sentence_adjustment_days)
               \/ record.sentence_adjustment_days = 0
         THEN "No sentence adjustment to approve"
    ELSE OK

\* The attributes approveSentenceAdjustment sets on the prisoner it read.
ApprovePrisonerValues(record, prisoner) ==
    [expected_release_date |->
        Some(AdjustedReleaseDate(prisoner.expected_release_date[1],
                                 record.sentence_adjustment_days, tz))]

ApproveRecordValues ==
    [adjustment_status |-> APPROVED, adjustment_approved_at |-> Some(today)]

\* The two tables after the writes of an approval made on the rows read.
ApprovedPrisoners(id, record, prisoner) ==
    IF prisoner.expected_release_date # Null
    THEN SaveRow(prisoners, record.prisoner_id, prisoner,
                 ApprovePrisonerValues(record, prisoner))
    ELSE prisoners

ApprovedBehaviours(id, record) ==
    SaveRow(behaviours, id, record, ApproveRecordValues)

approveSentenceAdjustment(id, caller) ==
    /\ IF ~BehaviourFound(id)
       THEN /\ UNCHANGED <<prisoners, behaviours>>
            /\ last' = Done("approveSentenceAdjustment", id,
                            "Behaviour record not found")
       ELSE LET record == behaviours[id]
                prisoner == IncludedPrisoner(record.prisoner_id, ApproveLoaded)
                o == ApproveChecks(record, prisoner, caller)
            IN  /\ prisoners' = IF o = OK
                                THEN ApprovedPrisoners(id, record, prisoner)
                                ELSE prisoners
                /\ behaviours' = IF o = OK
                                 THEN ApprovedBehaviours(id, record)
                                 ELSE behaviours
                /\ last' = Done("approveSentenceAdjustment", id, o)
    /\ UNCHANGED <<today, tz, users, works, prisons, visits, reqs>>

\* deleteBehaviourRecord loads the prisoner with attributes ['prison_id'] and
\* reads behaviourRecord.prisoner.prison_id.
DeleteBehaviourLoaded == {"prison_id"}

DeleteBehaviourOutcomeAny(id, caller) ==
    IF ~BehaviourFound(id) THEN "Behaviour record not found"
    ELSE LET prisoner == IncludedPrisoner(behaviours[id].prisoner_id,
                                          DeleteBehaviourLoaded)
         IN  IF ~checkPrisonAccess(caller.prisonId, prisoner.prison_id,
                                   caller.role)
             THEN "You do not have access to this behaviour record"
             ELSE OK

DeleteBehaviourOutcome(id, caller) ==
    IF ~BehaviourFound(id) THEN "Behaviour record not found"
    ELSE LET prisoner == IncludedPrisoner(behaviours[id].prisoner_id,
                                          DeleteBehaviourLoaded)
         IN  IF ~checkPrisonAccess(caller.prisonId, prisoner.prison_id,
                                   caller.role)
             THEN "You do not have access to this behaviour record"
             ELSE IF behaviours[id].adjustment_status = APPROVED
                  THEN "Cannot delete behaviour record with approved sentence adjustment"
             ELSE OK

deleteBehaviourRecord(id, caller) ==
    LET o == DeleteBehaviourOutcome(id, caller)
    IN  /\ behaviours' =
             IF o = OK
             THEN [behaviours EXCEPT ![id].adjustment_status = DESTROYED]
             ELSE behaviours
        /\ last' = Done("deleteBehaviourRecord", id, o)
        /\ UNCHANGED <<today, tz, users, works, prisons, prisoners, visits, reqs>>

\* rejectSentenceAdjustment reads behaviourRecord.prisoner.prison.prison_id
\* of a prisoner loaded with attributes ['prison_id'].
RejectLoaded == {"prison_id"}

RejectOutcome(id, caller) ==
    IF ~BehaviourFound(id) THEN "Behaviour record not found"
    ELSE LET prisoner == IncludedPrisoner(behaviours[id].prisoner_id,
                                          RejectLoaded)
         IN  IF "prison" \notin DOMAIN prisoner THEN TypeError
             ELSE IF ~checkPrisonAccess(caller.prisonId,
                                        prisoner.prison.prison_id, caller.role)
                  THEN "You do not have access to this behaviour record"
             ELSE IF behaviours[id].adjustment_status # PENDING
                  THEN "This behaviour record does not have a pending sentence adjustment"
             ELSE OK

rejectSentenceAdjustment(id, caller) ==
    LET o == RejectOutcome(id, caller)
    IN  /\ behaviours' =
             IF o = OK
             THEN [behaviours EXCEPT ![id].adjustment_status = REJECTED]
             ELSE behaviours
        /\ last' = Done("rejectSentenceAdjustment", id, o)
        /\ UNCHANGED <<today, tz, users, works, prisons, prisoners, visits, reqs>>

\* --------------------------------------------------------------------- visits
\* The answer of a visit handler is its ...Outcome operator on the state it
\* ran in; the handlers below record the effect on the table only.
VisitIds == 1..MaxVisits
VisitorIds == 1..NumVisitors

\* A destroyed row: its key is used up and no query finds it.
Destroyed ==
    [prisoner_id |-> 0, visit_date |-> 0, visit_time_start |-> 0,
     visit_time_end |-> 0, status |-> DESTROYED, approved_by |-> Null]
Found(tbl, id) == id \in DOMAIN tbl /\ tbl[id].status # DESTROYED

\* x BETWEEN a AND b
Between(x, a, b) == a <= x /\ x <= b

\* The [Op.or] of the conflict query, on one stored visit.
TimesConflict(visit, timeStart, timeEnd) ==
    \/ Between(visit.visit_time_start, timeStart, timeEnd)
    \/ Between(visit.visit_time_end, timeStart, timeEnd)
    \/ /\ visit.visit_time_start <= timeStart
       /\ visit.visit_time_end >= timeEnd

\* The rows the conflict query of scheduleVisit and updateVisit can return
\* (exclude 0: no visit_id is left out).
ConflictingVisits(tbl, prisonerId, visitDate, timeStart, timeEnd, exclude) ==
    {v \in DOMAIN tbl :
        /\ v # exclude
        /\ tbl[v].prisoner_id = prisonerId
        /\ tbl[v].visit_date = visitDate
        /\ tbl[v].status = SCHEDULED
        /\ TimesConflict(tbl[v], timeStart, timeEnd)}

ConflictError ==
    "Visit time conflict: Another visit is already scheduled during this time"

\* The checks of scheduleVisit that come before the conflict query.
ScheduleChecks(data, caller) ==
    IF data.prisoner_id \notin DOMAIN prisoners THEN "Prisoner not found"
    ELSE IF prisoners[data.prisoner_id].status # ACTIVE
         THEN "Visits can only be scheduled for active prisoners"
    ELSE IF ~checkPrisonAccess(caller.prisonId,
                               prisoners[data.prisoner_id].prison_id,
                               caller.role)
         THEN "You do not have access to this prisoner"
    ELSE IF data.visitor_id \notin VisitorIds THEN "Visitor not found"
    ELSE OK

ScheduleOutcome(data, caller) ==
    IF ScheduleChecks(data, caller) # OK THEN ScheduleChecks(data, caller)
    ELSE IF ConflictingVisits(visits, data.prisoner_id, data.visit_date,
                              data.visit_time_start, data.visit_time_end, 0)
               # {}
         THEN ConflictError
    ELSE OK

\* req.user.userId: the key of the authenticated user.
UserIds == 1..NumUsers

\* The row Visit.create stores, approved_by: userId included.
NewVisitUnapproved(data, userId) ==
    [prisoner_id |-> data.prisoner_id, visit_date |-> data.visit_date,
     visit_time_start |-> data.visit_time_start,
     visit_time_end |-> data.visit_time_end, status |-> SCHEDULED,
     approved_by |-> Null]

NewVisit(data, userId) ==
    [prisoner_id |-> data.prisoner_id, visit_date |-> data.visit_date,
     visit_time_start |-> data.visit_time_start,
     visit_time_end |-> data.visit_time_end, status |-> SCHEDULED,
     approved_by |-> Some(userId)]

scheduleVisit(data, caller) ==
    LET o == ScheduleOutcome(data, caller)
        id == NextId(visits)
    IN  /\ IF o = OK
           THEN /\ id <= MaxVisits
                /\ \E userId \in UserIds :
                      visits' = (id :> NewVisit(data, userId)) @@ visits
           ELSE UNCHANGED visits
        /\ UNCHANGED <<today, tz, users, works, prisons, prisoners, behaviours, reqs, last>>

\* The value updateVisit checks: the one given, else the stored one.
Given(data, f, stored) == IF Has(data, f) THEN data[f] ELSE stored

UpdateVisitOutcome(id, data, caller) ==
    IF ~Found(visits, id) THEN "Visit not found"
    ELSE IF ~checkPrisonAccess(caller.prisonId,
                               prisoners[visits[id].prisoner_id].prison_id,
                               caller.role)
         THEN "You do not have access to this visit"
    ELSE IF visits[id].status # SCHEDULED
         THEN "Cannot update visit with this status"
    ELSE IF /\ \/ Has(data, "visit_date")
               \/ Has(data, "visit_time_start")
               \/ Has(data, "visit_time_end")
            /\ ConflictingVisits(visits, visits[id].prisoner_id,
                  Given(data, "visit_date", visits[id].visit_date),
                  Given(data, "visit_time_start", visits[id].visit_time_start),
                  Given(data, "visit_time_end", visits[id].visit_time_end),
                  id) # {}
         THEN ConflictError
    ELSE OK

updateVisit(id, data, caller) ==
    LET o == UpdateVisitOutcome(id, data, caller)
    IN  /\ visits' = IF o = OK
                     THEN [visits EXCEPT ![id] = UpdateRow(@, data)]
                     ELSE visits
        /\ UNCHANGED <<today, tz, users, works, prisons, prisoners, behaviours, reqs, last>>

UpdateVisitStatusOutcome(id, status, caller) ==
    IF ~Found(visits, id) THEN "Visit not found"
    ELSE IF ~checkPrisonAccess(caller.prisonId,
                               prisoners[visits[id].prisoner_id].prison_id,
                               caller.role)
         THEN "You do not have access to this visit"
    ELSE IF status \notin VISIT_STATUS THEN "Invalid visit status"
    ELSE OK

updateVisitStatus(id, status, caller) ==
    LET o == UpdateVisitStatusOutcome(id, status, caller)
    IN  /\ visits' = IF o = OK
                     THEN [visits EXCEPT ![id].status = status]
                     ELSE visits
        /\ UNCHANGED <<today, tz, users, works, prisons, prisoners, behaviours, reqs, last>>

DeleteVisitOutcome(id, caller) ==
    IF ~Found(visits, id) THEN "Visit not found"
    ELSE IF ~checkPrisonAccess(caller.prisonId,
                               prisoners[visits[id].prisoner_id].prison_id,
                               caller.role)
         THEN "You do not have access to this visit"
    ELSE IF visits[id].status = COMPLETED THEN "Cannot delete completed visit"
    ELSE OK

deleteVisit(id, caller) ==
    LET o == DeleteVisitOutcome(id, caller)
    IN  /\ visits' = IF o = OK
                     THEN [visits EXCEPT ![id] = Destroyed]
                     ELSE visits
        /\ UNCHANGED <<today, tz, users, works, prisons, prisoners, behaviours, reqs, last>>

\* approveVisit: the visit is loaded with its prisoner's prison_id, checked,
\* and approved_by is set when it holds no user yet.
ApproveVisitOutcome(id, caller) ==
    IF ~Found(visits, id) THEN "Visit not found"
    ELSE IF ~checkPrisonAccess(caller.prisonId,
                               prisoners[visits[id].prisoner_id].prison_id,
                               caller.role)
         THEN "You do not have access to this visit"
    ELSE IF visits[id].approved_by # Null THEN "Visit is already approved"
    ELSE OK

approveVisit(id, caller) ==
    LET o == ApproveVisitOutcome(id, caller)
    IN  /\ \E userId \in UserIds :
              visits' = IF o = OK
                        THEN [visits EXCEPT ![id].approved_by = Some(userId)]
                        ELSE visits
        /\ last' = Done("approveVisit", id, o)
        /\ UNCHANGED <<today, tz, users, works, prisons, prisoners, behaviours,
                       reqs>>

\* ---------------------------------------------------------- prisoner listing
\* The prisonId filter the controller builds from req.user and the query
\* (prison_id 0: not given; filter 0: none).
ListFilter(caller, query) ==
    IF caller.role # SUPER_ADMIN /\ caller.prisonId # 0 THEN caller.prisonId
    ELSE IF query.prison_id # 0 THEN query.prison_id
    ELSE 0

\* The prisoners getAllPrisoners returns: the where clause carries prison_id
\* only when the filter is set.
getAllPrisoners(caller, query) ==
    LET prisonId == ListFilter(caller, query)
    IN  {p \in DOMAIN prisoners :
            prisonId # 0 => prisoners[p].prison_id = prisonId}

GetPrisonerOutcome(id, caller) ==
    IF id \notin DOMAIN prisoners THEN "Prisoner not found"
    ELSE IF ~checkPrisonAccess(caller.prisonId, prisoners[id].prison_id,
                               caller.role)
         THEN "You do not have access to this prisoner"
    ELSE OK

\* --------------------------------------------------------------- work records
WorkIds == 1..MaxWorks

DestroyedWork ==
    [prisoner_id |-> 0, hours_worked |-> 0, payment_status |-> DESTROYED,
     payment_date |-> Null]

WorkFound(id) == id \in DOMAIN works /\ works[id].payment_status # DESTROYED

CreateWorkOutcome(data, caller) ==
    IF data.prisoner_id \notin DOMAIN prisoners THEN "Prisoner not found"
    ELSE IF prisoners[data.prisoner_id].status # ACTIVE
         THEN "Work records can only be created for active prisoners"
    ELSE IF ~checkPrisonAccess(caller.prisonId,
                               prisoners[data.prisoner_id].prison_id,
                               caller.role)
         THEN "You do not have access to this prisoner"
    ELSE OK

NewWork(data) ==
    [prisoner_id |-> data.prisoner_id, hours_worked |-> data.hours_worked,
     payment_status |-> PAYMENT_PENDING, payment_date |-> Null]

createWorkRecord(data, caller) ==
    LET o == CreateWorkOutcome(data, caller)
        id == NextId(works)
    IN  /\ IF o = OK
           THEN /\ id <= MaxWorks
                /\ works' = (id :> NewWork(data)) @@ works
                /\ last' = Done("createWorkRecord", id, OK)
           ELSE /\ UNCHANGED works
                /\ last' = Done("createWorkRecord", 0, o)
        /\ UNCHANGED <<today, tz, users, prisons, prisoners, behaviours, visits, reqs>>

\* updateWorkRecord without the check of the payment status.
UpdateWorkOutcomeUnpaid(id, caller) ==
    IF ~WorkFound(id) THEN "Work record not found"
    ELSE IF ~checkPrisonAccess(caller.prisonId,
                               prisoners[works[id].prisoner_id].prison_id,
                               caller.role)
         THEN "You do not have access to this work record"
    ELSE OK

UpdateWorkOutcome(id, caller) ==
    IF ~WorkFound(id) THEN "Work record not found"
    ELSE IF ~checkPrisonAccess(caller.prisonId,
                               prisoners[works[id].prisoner_id].prison_id,
                               caller.role)
         THEN "You do not have access to this work record"
    ELSE IF works[id].payment_status = PAID
         THEN "Cannot update work record with paid status"
    ELSE OK

updateWorkRecord(id, data, caller) ==
    LET o == UpdateWorkOutcome(id, caller)
    IN  /\ works' = IF o = OK
                    THEN [works EXCEPT ![id] = UpdateRow(@, data)]
                    ELSE works
        /\ last' = Done("updateWorkRecord", id, o)
        /\ UNCHANGED <<today, tz, users, prisons, prisoners, behaviours, visits, reqs>>

DeleteWorkOutcome(id, caller) ==
    IF ~WorkFound(id) THEN "Work record not found"
    ELSE IF ~checkPrisonAccess(caller.prisonId,
                               prisoners[works[id].prisoner_id].prison_id,
                               caller.role)
         THEN "You do not have access to this work record"
    ELSE IF works[id].payment_status = PAID
         THEN "Cannot delete work record with paid status"
    ELSE OK

deleteWorkRecord(id, caller) ==
    LET o == DeleteWorkOutcome(id, caller)
    IN  /\ works' = IF o = OK
                    THEN [works EXCEPT ![id] = DestroyedWork]
                    ELSE works
        /\ last' = Done("deleteWorkRecord", id, o)
        /\ UNCHANGED <<today, tz, users, prisons, prisoners, behaviours, visits, reqs>>

ApprovePaymentOutcome(id, caller) ==
    IF ~WorkFound(id) THEN "Work record not found"
    ELSE IF ~checkPrisonAccess(caller.prisonId,
                               prisoners[works[id].prisoner_id].prison_id,
                               caller.role)
         THEN "You do not have access to this work record"
    ELSE IF works[id].payment_status = PAID
         THEN "Payment is already approved for this work record"
    ELSE OK

\* paymentDate is not given: the payment date is today.
approvePayment(id, caller) ==
    LET o == ApprovePaymentOutcome(id, caller)
    IN  /\ works' = IF o = OK
                    THEN [works EXCEPT ![id].payment_status = PAID,
                                       ![id].payment_date = Some(today)]
                    ELSE works
        /\ last' = Done("approvePayment", id, o)
        /\ UNCHANGED <<today, tz, users, prisons, prisoners, behaviours, visits, reqs>>

\* ------------------------------------------------------- bulkApprovePayments
\* What the loop does with one id of the list.  Every findByPk of the loop
\* runs outside the transaction, so it reads the table as it was committed;
\* the updates are held by the transaction until the commit after the loop.
BulkOutcome(id, caller) ==
    IF ~WorkFound(id) THEN "Work record not found"
    ELSE IF ~checkPrisonAccess(caller.prisonId,
                               prisoners[works[id].prisoner_id].prison_id,
                               caller.role)
         THEN "Access denied"
    ELSE IF works[id].payment_status = PAID THEN "Already paid"
    ELSE OK

\* The ids of the list whose record the loop updates: all-or-nothing variant.
BulkApprovedAll(workRecordIds, caller) ==
    IF \A i \in DOMAIN workRecordIds : BulkOutcome(workRecordIds[i], caller) = OK
    THEN {workRecordIds[i] : i \in DOMAIN workRecordIds}
    ELSE {}

\* The ids of the list whose record the loop updates.
BulkApproved(workRecordIds, caller) ==
    {workRecordIds[i] : i \in {j \in DOMAIN workRecordIds :
                                  BulkOutcome(workRecordIds[j], caller) = OK}}

\* results.errors: the positions of the list that failed, each with its error.
BulkErrors(workRecordIds, caller) ==
    [i \in {j \in DOMAIN workRecordIds :
               BulkOutcome(workRecordIds[j], caller) # OK}
        |-> BulkOutcome(workRecordIds[i], caller)]

\* payment_date: paymentDate || new Date()
PaymentDate(paymentDate) ==
    IF paymentDate # Null THEN paymentDate ELSE Some(today)

\* The answer carries results.total, results.approved (arg) and
\* results.failed; the request is kept next to it.
bulkApprovePayments(workRecordIds, paymentDate, caller) ==
    LET approved == Cardinality({i \in DOMAIN workRecordIds :
                        BulkOutcome(workRecordIds[i], caller) = OK})
        failed == Cardinality(DOMAIN BulkErrors(workRecordIds, caller))
    IN  /\ works' =
             [w \in DOMAIN works |->
                IF w \in BulkApproved(workRecordIds, caller)
                THEN [works[w] EXCEPT !.payment_status = PAID,
                                      !.payment_date = PaymentDate(paymentDate)]
                ELSE works[w]]
        /\ last' = [op |-> "bulkApprovePayments", id |-> 0, arg |-> approved,
                    outcome |-> OK, failed |-> failed,
                    total |-> Len(workRecordIds), ids |-> workRecordIds,
                    caller |-> caller]
        /\ UNCHANGED <<today, tz, users, prisons, prisoners, behaviours, visits,
                       reqs>>

\* The calendar moves on to the next day.
Tick ==
    /\ today < MaxDay
    /\ today' = today + 1
    /\ UNCHANGED <<tz, store, reqs, last>>

\* ------------------------------------------------------------------- inputs
Nics == 1..MaxPrisoners
CaseNumbers == 1..MaxPrisoners
ReleaseDay == 10
TimeZones == {-5, 0, 5}

\* Request bodies of registerPrisoner (prison_id 0: not given).
RegisterData ==
    [prison_id : 0..(NumPrisons + 1), nic : Nics, case_number : CaseNumbers,
     expected_release_date : {Null, Some(ReleaseDay)}]

\* Request bodies of updatePrisoner that carry one attribute, among those
\* updatePrisonerValidation lets through.
StatusUpdates == {[status |-> s] : s \in PRISONER_STATUS}
IdentityUpdates == {[nic |-> n] : n \in Nics}
                      \cup {[case_number |-> c] : c \in CaseNumbers}
\* The body is handed to prisoner.update() as it came: prison_id is an
\* attribute of the model like any other.
PrisonUpdates == {[prison_id |-> q] : q \in PrisonIds}
\* Request bodies that pass the behaviour validation: the days are within
\* [-365, 365], not above 0 for Positive and not below 0 for Negative.
AdjustmentDays == {-3, 0, 2}
SignAllowed(type, days) ==
    /\ ~(type = POSITIVE /\ days > 0)
    /\ ~(type = NEGATIVE /\ days < 0)
BehaviourData ==
    {d \in [prisoner_id : 1..(MaxPrisoners + 1), behaviour_type : BEHAVIOUR_TYPE,
            sentence_adjustment_days : AdjustmentDays] :
        SignAllowed(d.behaviour_type, d.sentence_adjustment_days)}
BehaviourUpdates ==
    {[sentence_adjustment_days |-> n] : n \in AdjustmentDays}
        \cup {[behaviour_type |-> t] : t \in BEHAVIOUR_TYPE}
\* Request bodies that pass the visit validation.  Times count quarters of an
\* hour: a window given whole ends after it starts and lasts 15 to 120
\* minutes; a time given alone is not compared with the stored one.
VisitDates == 1..MaxDate
VisitTimes == 0..MaxTime
WindowAllowed(timeStart, timeEnd) ==
    /\ timeEnd > timeStart
    /\ timeEnd - timeStart >= 1
    /\ timeEnd - timeStart <= 8
VisitData ==
    {d \in [prisoner_id : 1..(MaxPrisoners + 1),
            visitor_id : 1..(NumVisitors + 1), visit_date : VisitDates,
            visit_time_start : VisitTimes, visit_time_end : VisitTimes] :
        WindowAllowed(d.visit_time_start, d.visit_time_end)}
VisitUpdates ==
    {[visit_date |-> d] : d \in VisitDates}
        \cup {[visit_time_start |-> t] : t \in VisitTimes}
        \cup {[visit_time_end |-> t] : t \in VisitTimes}
        \cup {d \in [visit_time_start : VisitTimes, visit_time_end : VisitTimes] :
                 WindowAllowed(d.visit_time_start, d.visit_time_end)}
\* Request bodies that pass the work record validation, in whole hours.
WorkHours == 1..MaxHours
WorkData == [prisoner_id : 1..(MaxPrisoners + 1), hours_worked : WorkHours]
WorkUpdates == {[hours_worked |-> h] : h \in WorkHours}
\* Bodies of a bulk approval: a list of one to MaxBatch ids, one more id than
\* there can be records, and a payment date or none.
Batches ==
    UNION {[1..n -> 1..(MaxWorks + 1)] : n \in 1..MaxBatch}
PaymentDates == {Null, Some(MaxDay)}
ListQueries == [prison_id : 0..NumPrisons]
CapacityUpdates == {[capacity |-> c] : c \in (-1)..MaxCapacity}

\* -------------------------------------------------------------------- Init
\* The prisons exist (createPrison stores any capacity >= 0) and hold nobody.

InitStore ==
    /\ today = 1
    /\ prisons \in [PrisonIds -> [capacity : 0..MaxCapacity, is_active : {TRUE}]]
    /\ prisoners = NoRows
    /\ behaviours = NoRows
    /\ visits = NoRows
    /\ works = NoRows
    /\ users = Staff
    /\ last = Done("init", 0, OK)

\* ------------------------------------------- prisoner lifecycle, one at a time
Init ==
    /\ InitStore
    /\ tz = 0
    /\ reqs = NoRows

Next ==
    \/ \E d \in {x \in RegisterData : /\ x.nic = x.case_number
                                      /\ x.expected_release_date = Null},
          c \in Callers : registerPrisoner(d, c)
    \/ \E id \in PrisonerIds, d \in StatusUpdates,
          c \in Callers : updatePrisoner(id, d, c)
    \/ \E id \in PrisonerIds, r \in {"deceased", "released"}, c \in Callers :
          deletePrisoner(id, r, c)
    \/ \E id \in PrisonerIds, t \in 1..(NumPrisons + 1), c \in Callers :
          transferPrisoner(id, t, c)
    \/ \E id \in PrisonerIds, c \in Callers : releasePrisoner(id, c)
    \/ \E q \in 1..(NumPrisons + 1), d \in CapacityUpdates, r \in USER_ROLES :
          updatePrison(q, d, r)

Spec == Init /\ [][Next]_vars

\* ------------------------------------------- behaviour records, one at a time
\* Prisoners registered earlier: prisoner i is held in prison i (modulo the
\* number of prisons) with or without an expected release date; the last one
\* may have been released since.
HomePrison(i) == ((i - 1) % NumPrisons) + 1

RegisteredPrisoners ==
    {t \in [PrisonerIds ->
              [nic : Nics, case_number : CaseNumbers,
               expected_release_date : {Null, Some(ReleaseDay)},
               actual_release_date : {Null},
               status : {ACTIVE, RELEASED}, prison_id : PrisonIds]] :
        \A i \in PrisonerIds :
            /\ t[i].nic = i /\ t[i].case_number = i
            /\ t[i].prison_id = HomePrison(i)
            /\ i < MaxPrisoners => t[i].status = ACTIVE}

InitBehaviour ==
    /\ today = 1
    /\ tz \in TimeZones
    /\ prisons = [q \in PrisonIds |-> [capacity |-> MaxCapacity, is_active |-> TRUE]]
    /\ prisoners \in RegisteredPrisoners
    /\ behaviours = NoRows
    /\ visits = NoRows
    /\ works = NoRows
    /\ users = Staff
    /\ reqs = NoRows
    /\ last = Done("init", 0, OK)

NextBehaviour ==
    \/ \E d \in BehaviourData, c \in Callers : createBehaviourRecord(d, c)
    \/ \E id \in BehaviourIds, d \in BehaviourUpdates, c \in Callers :
          updateBehaviourRecord(id, d, c)
    \/ \E id \in BehaviourIds, c \in Callers : approveSentenceAdjustment(id, c)
    \/ \E id \in BehaviourIds, c \in Callers : rejectSentenceAdjustment(id, c)

SpecBehaviour == InitBehaviour /\ [][NextBehaviour]_vars

\* The same with records deleted as well.
NextErase ==
    \/ NextBehaviour
    \/ \E id \in BehaviourIds, c \in Callers : deleteBehaviourRecord(id, c)

InitErase == InitBehaviour /\ tz = 0

SpecErase == InitErase /\ [][NextErase]_vars

\* --------------------------------------- leaving custody, over several days
InitCustody ==
    /\ today = 1
    /\ tz = 0
    /\ prisons = [q \in PrisonIds |-> [capacity |-> MaxCapacity, is_active |-> TRUE]]
    /\ prisoners \in {t \in RegisteredPrisoners :
                         \A i \in PrisonerIds :
                             /\ t[i].expected_release_date = Null
                             /\ t[i].status = ACTIVE}
    /\ behaviours = NoRows
    /\ visits = NoRows
    /\ works = NoRows
    /\ users = Staff
    /\ reqs = NoRows
    /\ last = Done("init", 0, OK)

NextCustody ==
    \/ \E id \in PrisonerIds, c \in Callers : releasePrisoner(id, c)
    \/ \E id \in PrisonerIds, r \in {"deceased", "released"}, c \in Callers :
          deletePrisoner(id, r, c)
    \/ \E id \in PrisonerIds, t \in PrisonIds, c \in Callers :
          transferPrisoner(id, t, c)
    \/ \E id \in PrisonerIds, d \in StatusUpdates, c \in Callers :
          updatePrisoner(id, d, c)
    \/ Tick

SpecCustody == InitCustody /\ [][NextCustody]_vars

\* ------------------------------------------ the register, one call at a time
\* Admissions, corrections of a prisoner's attributes, transfers and releases.
NextRegister ==
    \/ \E d \in {x \in RegisterData : x.expected_release_date = Null},
          c \in Callers : registerPrisoner(d, c)
    \/ \E id \in PrisonerIds, d \in IdentityUpdates \cup PrisonUpdates,
          c \in Callers : updatePrisoner(id, d, c)
    \/ \E id \in PrisonerIds, t \in 1..(NumPrisons + 1), c \in Callers :
          transferPrisoner(id, t, c)
    \/ \E id \in PrisonerIds, c \in Callers : releasePrisoner(id, c)

SpecRegister == Init /\ [][NextRegister]_vars

\* ------------------------------------------------- prisons, one call at a time
\* Bodies of updatePrison that carry is_active.
ActiveUpdates == {[is_active |-> b] : b \in BOOLEAN}

\* The users table: the account of each caller, those of the Prison Admins
\* active or deactivated.
StaffTables ==
    {t \in [Callers -> [prison_id : 0..NumPrisons, is_active : BOOLEAN]] :
        \A c \in Callers : /\ t[c].prison_id = c.prisonId
                           /\ c.role # PRISON_ADMIN => t[c].is_active
                           /\ c.prisonId = 0 => t[c].is_active}

InitPrison ==
    /\ today = 1
    /\ tz = 0
    /\ users \in StaffTables
    /\ prisons = [q \in PrisonIds |->
                    [capacity |-> MaxCapacity, is_active |-> TRUE]]
    /\ prisoners = NoRows
    /\ behaviours = NoRows
    /\ visits = NoRows
    /\ works = NoRows
    /\ reqs = NoRows
    /\ last = Done("init", 0, OK)

\* authenticate lets the request of an active account through.
NextPrison ==
    \/ \E d \in {x \in RegisterData : /\ x.nic = x.case_number
                                      /\ x.expected_release_date = Null},
          c \in Callers : users[c].is_active /\ registerPrisoner(d, c)
    \/ \E id \in PrisonerIds, c \in Callers :
          users[c].is_active /\ releasePrisoner(id, c)
    \/ \E q \in 1..(NumPrisons + 1), d \in CapacityUpdates \cup ActiveUpdates,
          r \in USER_ROLES : updatePrison(q, d, r)
    \/ \E q \in 1..(NumPrisons + 1), r \in USER_ROLES : deletePrison(q, r)

SpecPrison == InitPrison /\ [][NextPrison]_vars

\* ----------------------------------------------------- visits, one at a time
VisitStore ==
    /\ today = 1
    /\ tz = 0
    /\ prisons = [q \in PrisonIds |-> [capacity |-> MaxCapacity, is_active |-> TRUE]]
    /\ prisoners \in {t \in RegisteredPrisoners :
                         \A i \in PrisonerIds :
                             t[i].expected_release_date = Null}
    /\ behaviours = NoRows
    /\ visits = NoRows
    /\ works = NoRows
    /\ users = Staff
    /\ last = Done("init", 0, OK)

InitVisit == VisitStore /\ reqs = NoRows

NextVisit ==
    \/ \E d \in VisitData, c \in Callers : scheduleVisit(d, c)
    \/ \E id \in VisitIds, d \in VisitUpdates, c \in Callers :
          updateVisit(id, d, c)
    \/ \E id \in VisitIds, st \in VISIT_STATUS \cup {"Approved"},
          c \in Callers : updateVisitStatus(id, st, c)
    \/ \E id \in VisitIds, c \in Callers : deleteVisit(id, c)

SpecVisit == InitVisit /\ [][NextVisit]_vars

\* Visits scheduled on the first date, moved to another date, completed,
\* cancelled, deleted and approved.
NextVisitApproval ==
    \/ \E d \in {x \in VisitData : x.visit_date = 1}, c \in Callers :
          scheduleVisit(d, c)
    \/ \E id \in VisitIds, d \in {[visit_date |-> x] : x \in VisitDates},
          c \in Callers : updateVisit(id, d, c)
    \/ \E id \in VisitIds, st \in VISIT_STATUS, c \in Callers :
          updateVisitStatus(id, st, c)
    \/ \E id \in VisitIds, c \in Callers : deleteVisit(id, c)
    \/ \E id \in VisitIds, c \in Callers : approveVisit(id, c)

SpecVisitApproval == InitVisit /\ [][NextVisitApproval]_vars

\* ----------------------------------------------- work records, one at a time
InitWork == VisitStore /\ reqs = NoRows

NextWork ==
    \/ \E d \in WorkData, c \in Callers : createWorkRecord(d, c)
    \/ \E id \in WorkIds, d \in WorkUpdates, c \in Callers :
          updateWorkRecord(id, d, c)
    \/ \E id \in WorkIds, c \in Callers : deleteWorkRecord(id, c)
    \/ \E id \in WorkIds, c \in Callers : approvePayment(id, c)
    \/ \E ids \in Batches, d \in PaymentDates, c \in Callers :
          bulkApprovePayments(ids, d, c)

SpecWork == InitWork /\ [][NextWork]_vars

\* ------------------------------------------------ handlers running together
\* A request in flight: the handler, the await it stands before, its
\* arguments and the rows its reads returned.
Procs == 1..NumProcs

Request(op, pc, caller, data) ==
    [op |-> op, pc |-> pc, caller |-> caller, data |-> data,
     row |-> Null, other |-> Null, outcome |-> ""]

Idle(p) == reqs[p].pc = "idle"
At(p, op, pc) == reqs[p].pc = pc /\ reqs[p].op = op
Goto(p, pc) == [reqs EXCEPT ![p].pc = pc]
Throw(p, msg) == [reqs EXCEPT ![p].pc = "done", ![p].outcome = msg]

\* registerPrisoner, one await at a time.
RegisterBegin(p, data, caller) ==
    /\ Idle(p)
    /\ reqs' = [reqs EXCEPT ![p] =
                  IF RegisterPrisonId(data, caller) = 0
                  THEN [Request("registerPrisoner", "done", caller, data)
                           EXCEPT !.outcome = "Prison ID is required"]
                  ELSE Request("registerPrisoner", "findPrison", caller, data)]
    /\ UNCHANGED <<today, tz, store, last>>

RegisterFindPrison(p) ==
    LET prisonId == RegisterPrisonId(reqs[p].data, reqs[p].caller)
    IN  /\ At(p, "registerPrisoner", "findPrison")
        /\ reqs' = IF prisonId \notin DOMAIN prisons
                   THEN Throw(p, "Prison not found")
                   ELSE [reqs EXCEPT ![p].pc = "count",
                                     ![p].other = Some(prisons[prisonId])]
        /\ UNCHANGED <<today, tz, store, last>>

RegisterCount(p) ==
    LET prisonId == RegisterPrisonId(reqs[p].data, reqs[p].caller)
    IN  /\ At(p, "registerPrisoner", "count")
        /\ reqs' = IF CapacityReached(ActiveCount(prisoners, prisonId),
                                      reqs[p].other[1].capacity)
                   THEN Throw(p, "Prison has reached maximum capacity")
                   ELSE Goto(p, "findDuplicate")
        /\ UNCHANGED <<today, tz, store, last>>

RegisterFindDuplicate(p) ==
    /\ At(p, "registerPrisoner", "findDuplicate")
    /\ IF DuplicateRows(prisoners, reqs[p].data) # {}
       THEN \E e \in DuplicateRows(prisoners, reqs[p].data) :
               reqs' = Throw(p, DuplicateError(prisoners[e], reqs[p].data))
       ELSE reqs' = Goto(p, "create")
    /\ UNCHANGED <<today, tz, store, last>>

\* create and commit: the row is stored unless a unique index rejects it.
RegisterCreate(p) ==
    LET prisonId == RegisterPrisonId(reqs[p].data, reqs[p].caller)
        row == NewPrisoner(reqs[p].data, prisonId)
        id == NextId(prisoners)
    IN  /\ At(p, "registerPrisoner", "create")
        /\ IF UniqueViolation(prisoners, row)
           THEN /\ reqs' = Throw(p, "Validation error")
                /\ UNCHANGED prisoners
           ELSE /\ id <= MaxPrisoners
                /\ prisoners' = (id :> row) @@ prisoners
                /\ reqs' = Throw(p, OK)
        /\ UNCHANGED <<today, tz, users, works, prisons, behaviours, visits, last>>

\* transferPrisoner, one await at a time.
TransferBegin(p, id, targetPrisonId, caller) ==
    LET data == [id |-> id, target |-> targetPrisonId]
    IN  /\ Idle(p)
        /\ reqs' = [reqs EXCEPT ![p] =
                      IF ~MayManage(caller.role)
                      THEN [Request("transferPrisoner", "done", caller, data)
                               EXCEPT !.outcome =
                        "Only Prison Admin or Super Admin can transfer prisoners"]
                      ELSE Request("transferPrisoner", "findPrisoner", caller,
                                   data)]
        /\ UNCHANGED <<today, tz, store, last>>

TransferFindPrisoner(p) ==
    LET id == reqs[p].data.id
    IN  /\ At(p, "transferPrisoner", "findPrisoner")
        /\ reqs' =
             IF id \notin DOMAIN prisoners THEN Throw(p, "Prisoner not found")
             ELSE IF ~checkPrisonAccess(reqs[p].caller.prisonId,
                                        prisoners[id].prison_id,
                                        reqs[p].caller.role)
                  THEN Throw(p, "You do not have access to this prisoner")
             ELSE [reqs EXCEPT ![p].pc = "findPrison",
                               ![p].row = Some(prisoners[id])]
        /\ UNCHANGED <<today, tz, store, last>>

TransferFindPrison(p) ==
    LET target == reqs[p].data.target
    IN  /\ At(p, "transferPrisoner", "findPrison")
        /\ reqs' = IF target \notin DOMAIN prisons
                   THEN Throw(p, "Target prison not found")
                   ELSE [reqs EXCEPT ![p].pc = "count",
                                     ![p].other = Some(prisons[target])]
        /\ UNCHANGED <<today, tz, store, last>>

TransferCount(p) ==
    /\ At(p, "transferPrisoner", "count")
    /\ reqs' = IF CapacityReached(ActiveCount(prisoners, reqs[p].data.target),
                                  reqs[p].other[1].capacity)
               THEN Throw(p, "Target prison has reached maximum capacity")
               ELSE Goto(p, "update")
    /\ UNCHANGED <<today, tz, store, last>>

TransferUpdate(p) ==
    /\ At(p, "transferPrisoner", "update")
    /\ prisoners' = SaveRow(prisoners, reqs[p].data.id, reqs[p].row[1],
                            TransferValues(reqs[p].data.target))
    /\ reqs' = Throw(p, OK)
    /\ UNCHANGED <<today, tz, users, works, prisons, behaviours, visits, last>>

\* approveSentenceAdjustment, one await at a time: the findByPk that loads
\* the record with its prisoner, then the two updates and the commit that
\* makes them visible together.
ApproveBegin(p, id, caller) ==
    /\ Idle(p)
    /\ reqs' = [reqs EXCEPT ![p] =
                  Request("approveSentenceAdjustment", "find", caller, id)]
    /\ UNCHANGED <<today, tz, store, last>>

ApproveFind(p) ==
    LET id == reqs[p].data
    IN  /\ At(p, "approveSentenceAdjustment", "find")
        /\ reqs' =
             IF ~BehaviourFound(id)
             THEN Throw(p, "Behaviour record not found")
             ELSE LET record == behaviours[id]
                      prisoner == IncludedPrisoner(record.prisoner_id,
                                                   ApproveLoaded)
                      o == ApproveChecks(record, prisoner, reqs[p].caller)
                  IN  IF o # OK THEN Throw(p, o)
                      ELSE [reqs EXCEPT ![p].pc = "save",
                                        ![p].row = Some(record),
                                        ![p].other = Some(prisoner)]
        /\ UNCHANGED <<today, tz, store, last>>

ApproveSave(p) ==
    /\ At(p, "approveSentenceAdjustment", "save")
    /\ prisoners' = ApprovedPrisoners(reqs[p].data, reqs[p].row[1],
                                      reqs[p].other[1])
    /\ behaviours' = ApprovedBehaviours(reqs[p].data, reqs[p].row[1])
    /\ reqs' = Throw(p, OK)
    /\ UNCHANGED <<today, tz, users, works, prisons, visits, last>>

\* The response is sent and the worker takes the next request.
\* scheduleVisit, one await at a time.
ScheduleBegin(p, data, caller) ==
    /\ Idle(p)
    /\ reqs' = [reqs EXCEPT ![p] =
                  Request("scheduleVisit", "findPrisoner", caller, data)]
    /\ UNCHANGED <<today, tz, store, last>>

ScheduleFindPrisoner(p) ==
    LET data == reqs[p].data
        caller == reqs[p].caller
    IN  /\ At(p, "scheduleVisit", "findPrisoner")
        /\ reqs' =
             IF data.prisoner_id \notin DOMAIN prisoners
             THEN Throw(p, "Prisoner not found")
             ELSE IF prisoners[data.prisoner_id].status # ACTIVE
             THEN Throw(p, "Visits can only be scheduled for active prisoners")
             ELSE IF ~checkPrisonAccess(caller.prisonId,
                                        prisoners[data.prisoner_id].prison_id,
                                        caller.role)
             THEN Throw(p, "You do not have access to this prisoner")
             ELSE Goto(p, "findVisitor")
        /\ UNCHANGED <<today, tz, store, last>>

ScheduleFindVisitor(p) ==
    /\ At(p, "scheduleVisit", "findVisitor")
    /\ reqs' = IF reqs[p].data.visitor_id \notin VisitorIds
               THEN Throw(p, "Visitor not found")
               ELSE Goto(p, "findConflict")
    /\ UNCHANGED <<today, tz, store, last>>

ScheduleFindConflict(p) ==
    LET data == reqs[p].data
    IN  /\ At(p, "scheduleVisit", "findConflict")
        /\ reqs' = IF ConflictingVisits(visits, data.prisoner_id,
                          data.visit_date, data.visit_time_start,
                          data.visit_time_end, 0) # {}
                   THEN Throw(p, ConflictError)
                   ELSE Goto(p, "create")
        /\ UNCHANGED <<today, tz, store, last>>

\* create and commit
ScheduleCreate(p) ==
    LET id == NextId(visits)
    IN  /\ At(p, "scheduleVisit", "create")
        /\ id <= MaxVisits
        /\ \E userId \in UserIds :
              visits' = (id :> NewVisit(reqs[p].data, userId)) @@ visits
        /\ reqs' = [reqs EXCEPT ![p].pc = "done", ![p].outcome = OK,
                                ![p].row = Some(id)]
        /\ UNCHANGED <<today, tz, users, works, prisons, prisoners, behaviours, last>>

Respond(p) ==
    /\ reqs[p].pc = "done"
    /\ reqs' = [reqs EXCEPT ![p] = NoRequest]
    /\ UNCHANGED <<today, tz, store, last>>

\* ------------------------------------- admissions and transfers in parallel
InitAdmit ==
    /\ InitStore
    /\ tz = 0
    /\ reqs = [p \in Procs |-> NoRequest]

NextAdmit ==
    \/ \E p \in Procs, c \in Callers,
          d \in {x \in RegisterData : /\ x.nic = x.case_number
                                      /\ x.prison_id \in 0..NumPrisons
                                      /\ x.expected_release_date = Null} :
          RegisterBegin(p, d, c)
    \/ \E p \in Procs : RegisterFindPrison(p)
    \/ \E p \in Procs : RegisterCount(p)
    \/ \E p \in Procs : RegisterFindDuplicate(p)
    \/ \E p \in Procs : RegisterCreate(p)
    \/ \E p \in Procs, id \in PrisonerIds, t \in PrisonIds, c \in Callers :
          TransferBegin(p, id, t, c)
    \/ \E p \in Procs : TransferFindPrisoner(p)
    \/ \E p \in Procs : TransferFindPrison(p)
    \/ \E p \in Procs : TransferCount(p)
    \/ \E p \in Procs : TransferUpdate(p)
    \/ \E p \in Procs : Respond(p)

SpecAdmit == InitAdmit /\ [][NextAdmit]_vars

\* ------------------------------------------------------ approvals in parallel
\* Records created earlier, each with a pending adjustment.
PendingBehaviours ==
    {t \in [BehaviourIds ->
              [prisoner_id : PrisonerIds, behaviour_type : BEHAVIOUR_TYPE,
               sentence_adjustment_days : AdjustmentDays \ {0},
               adjustment_status : {PENDING},
               adjustment_approved_at : {Null}]] :
        \A b \in BehaviourIds :
            SignAllowed(t[b].behaviour_type, t[b].sentence_adjustment_days)}

\* The Super Admin and the Prison Admin of prison 1.
Approvers == {c \in Callers : c.role # OFFICER /\ c.prisonId <= 1}

InitApprove ==
    /\ today = 1
    /\ tz \in TimeZones
    /\ prisons = [q \in PrisonIds |-> [capacity |-> MaxCapacity, is_active |-> TRUE]]
    /\ prisoners \in {t \in RegisteredPrisoners :
                         \A i \in PrisonerIds : t[i].status = ACTIVE}
    /\ behaviours \in PendingBehaviours
    /\ visits = NoRows
    /\ works = NoRows
    /\ users = Staff
    /\ reqs = [p \in Procs |-> NoRequest]
    /\ last = Done("init", 0, OK)

NextApprove ==
    \/ \E p \in Procs, id \in BehaviourIds, c \in Approvers :
          ApproveBegin(p, id, c)
    \/ \E p \in Procs : ApproveFind(p)
    \/ \E p \in Procs : ApproveSave(p)
    \/ \E p \in Procs : Respond(p)

SpecApprove == InitApprove /\ [][NextApprove]_vars

\* ------------------------------------------------- payments approved together
\* approvePayment, one await at a time.  The controller takes the payment
\* date from its clock when the request arrives.
PayBegin(p, id, caller) ==
    /\ Idle(p)
    /\ reqs' = [reqs EXCEPT ![p] =
                  Request("approvePayment", "find", caller,
                          [id |-> id, payment_date |-> Some(today)])]
    /\ UNCHANGED <<today, tz, store, last>>

\* The findByPk outside the transaction and the three checks on what it read.
PayFind(p) ==
    LET id == reqs[p].data.id
        o == ApprovePaymentOutcome(id, reqs[p].caller)
    IN  /\ At(p, "approvePayment", "find")
        /\ reqs' = IF o # OK THEN Throw(p, o)
                   ELSE [reqs EXCEPT ![p].pc = "update",
                                     ![p].row = Some(works[id])]
        /\ UNCHANGED <<today, tz, store, last>>

\* workRecord.update() of the instance read earlier, and the commit.
PayUpdate(p) ==
    LET id == reqs[p].data.id
    IN  /\ At(p, "approvePayment", "update")
        /\ works' =
             IF WorkFound(id)
             THEN SaveRow(works, id, reqs[p].row[1],
                          [payment_status |-> PAID,
                           payment_date |-> PaymentDate(reqs[p].data.payment_date)])
             ELSE works
        /\ reqs' = Goto(p, "read")
        /\ UNCHANGED <<today, tz, users, prisons, prisoners, behaviours,
                       visits, last>>

\* getWorkRecordById after the commit; when it throws, the catch block rolls
\* back the committed transaction and that error is the one answered.
PayRead(p) ==
    /\ At(p, "approvePayment", "read")
    /\ reqs' = IF WorkFound(reqs[p].data.id) THEN Throw(p, OK)
               ELSE Throw(p, ROLLBACK_FINISHED)
    /\ UNCHANGED <<today, tz, store, last>>

\* Work records created earlier, none of them paid.
PendingWorks ==
    [WorkIds -> [prisoner_id : PrisonerIds, hours_worked : {1},
                 payment_status : {PAYMENT_PENDING}, payment_date : {Null}]]

\* The Super Admin and the Prison Admin of prison 1.
Cashier == [role |-> SUPER_ADMIN, prisonId |-> 0]
Cashiers ==
    {[role |-> SUPER_ADMIN, prisonId |-> 0], [role |-> PRISON_ADMIN, prisonId |-> 1]}

InitPay ==
    /\ today = 1
    /\ tz = 0
    /\ prisons = [q \in PrisonIds |-> [capacity |-> MaxCapacity, is_active |-> TRUE]]
    /\ prisoners = [i \in PrisonerIds |->
                      [nic |-> i, case_number |-> i,
                       expected_release_date |-> Null,
                       actual_release_date |-> Null,
                       status |-> ACTIVE, prison_id |-> HomePrison(i)]]
    /\ behaviours = NoRows
    /\ visits = NoRows
    /\ works \in PendingWorks
    /\ users = Staff
    /\ reqs = [p \in Procs |-> NoRequest]
    /\ last = Done("init", 0, OK)

NextPay ==
    \/ \E p \in Procs, id \in WorkIds, c \in Cashiers : PayBegin(p, id, c)
    \/ \E p \in Procs : PayFind(p)
    \/ \E p \in Procs : PayUpdate(p)
    \/ \E p \in Procs : PayRead(p)
    \/ \E p \in Procs : Respond(p)
    \/ \E id \in WorkIds : deleteWorkRecord(id, Cashier)
    \/ \E ids \in {b \in Batches : Len(b) = 1}, d \in PaymentDates :
          bulkApprovePayments(ids, d, Cashier)
    \/ Tick

SpecPay == InitPay /\ [][NextPay]_vars

\* ------------------------------------------------- visits booked in parallel
InitBook == VisitStore /\ reqs = [p \in Procs |-> NoRequest]

NextBook ==
    \/ \E p \in Procs, c \in {x \in Callers : x.role # PRISON_ADMIN},
          d \in {x \in VisitData : /\ x.prisoner_id \in PrisonerIds
                                   /\ x.visitor_id \in VisitorIds} :
          ScheduleBegin(p, d, c)
    \/ \E p \in Procs : ScheduleFindPrisoner(p)
    \/ \E p \in Procs : ScheduleFindVisitor(p)
    \/ \E p \in Procs : ScheduleFindConflict(p)
    \/ \E p \in Procs : ScheduleCreate(p)
    \/ \E p \in Procs : Respond(p)

SpecBook == InitBook /\ [][NextBook]_vars

\* ------------------------------------------- an approval, update by update
\* approveSentenceAdjustment with its transaction spelled out.  Both updates
\* are passed { transaction }: the store shows neither until the commit.  A
\* failure after an update (the connection lost, a lock wait timed out, the
\* process killed) reaches the catch, or ends the connection, and the
\* transaction is rolled back.
ROLLED_BACK == "transaction rolled back"

ApproveUpdatePrisonerDirect(p) ==
    /\ At(p, "approveSentenceAdjustment", "save")
    /\ prisoners' = ApprovedPrisoners(reqs[p].data, reqs[p].row[1],
                                      reqs[p].other[1])
    /\ reqs' = Goto(p, "updateRecord")
    /\ UNCHANGED <<today, tz, users, works, prisons, behaviours, visits, last>>

ApproveUpdatePrisoner(p) ==
    /\ At(p, "approveSentenceAdjustment", "save")
    /\ reqs' = Goto(p, "updateRecord")
    /\ UNCHANGED <<today, tz, store, last>>

ApproveUpdateRecord(p) ==
    /\ At(p, "approveSentenceAdjustment", "updateRecord")
    /\ reqs' = Goto(p, "commit")
    /\ UNCHANGED <<today, tz, store, last>>

ApproveCommit(p) ==
    /\ At(p, "approveSentenceAdjustment", "commit")
    /\ prisoners' = ApprovedPrisoners(reqs[p].data, reqs[p].row[1],
                                      reqs[p].other[1])
    /\ behaviours' = ApprovedBehaviours(reqs[p].data, reqs[p].row[1])
    /\ reqs' = Throw(p, OK)
    /\ UNCHANGED <<today, tz, users, works, prisons, visits, last>>

ApproveRollback(p) ==
    /\ reqs[p].op = "approveSentenceAdjustment"
    /\ reqs[p].pc \in {"updateRecord", "commit"}
    /\ reqs' = Throw(p, ROLLED_BACK)
    /\ UNCHANGED <<today, tz, store, last>>

NextTransaction ==
    \/ \E p \in Procs, id \in BehaviourIds, c \in Approvers :
          ApproveBegin(p, id, c)
    \/ \E p \in Procs : ApproveFind(p)
    \/ \E p \in Procs : ApproveUpdatePrisoner(p)
    \/ \E p \in Procs : ApproveUpdateRecord(p)
    \/ \E p \in Procs : ApproveCommit(p)
    \/ \E p \in Procs : ApproveRollback(p)
    \/ \E p \in Procs : Respond(p)

SpecTransaction == InitApprove /\ [][NextTransaction]_vars

\* updatePrisoner, one await at a time.
UpdateBegin(p, id, data, caller) ==
    /\ Idle(p)
    /\ reqs' = [reqs EXCEPT ![p] =
                  Request("updatePrisoner", "find", caller,
                          [id |-> id, values |-> data])]
    /\ UNCHANGED <<today, tz, store, last>>

UpdateFind(p) ==
    LET id == reqs[p].data.id
    IN  /\ At(p, "updatePrisoner", "find")
        /\ reqs' =
             IF id \notin DOMAIN prisoners THEN Throw(p, "Prisoner not found")
             ELSE IF ~checkPrisonAccess(reqs[p].caller.prisonId,
                                        prisoners[id].prison_id,
                                        reqs[p].caller.role)
                  THEN Throw(p, "You do not have access to this prisoner")
             ELSE [reqs EXCEPT ![p].pc = "findNic",
                               ![p].row = Some(prisoners[id])]
        /\ UNCHANGED <<today, tz, store, last>>

\* findOne({where: {<attribute>: value, prisoner_id: {[Op.ne]: prisonerId}}}),
\* made when the body carries the attribute with another value than the
\* prisoner read.
HeldByAnother(tbl, id, f, values, snapshot) ==
    /\ Has(values, f)
    /\ values[f] # snapshot[f]
    /\ \E q \in DOMAIN tbl : q # id /\ tbl[q][f] = values[f]

UpdateFindNic(p) ==
    /\ At(p, "updatePrisoner", "findNic")
    /\ reqs' = IF HeldByAnother(prisoners, reqs[p].data.id, "nic",
                                reqs[p].data.values, reqs[p].row[1])
               THEN Throw(p, "Prisoner with this NIC already exists")
               ELSE Goto(p, "findCase")
    /\ UNCHANGED <<today, tz, store, last>>

UpdateFindCase(p) ==
    /\ At(p, "updatePrisoner", "findCase")
    /\ reqs' = IF HeldByAnother(prisoners, reqs[p].data.id, "case_number",
                                reqs[p].data.values, reqs[p].row[1])
               THEN Throw(p, "Prisoner with this case number already exists")
               ELSE Goto(p, "update")
    /\ UNCHANGED <<today, tz, store, last>>

\* update and commit: the UPDATE sets the attributes that differ from the
\* instance read, unless a unique index rejects one of them.
UpdateWrite(p) ==
    LET id == reqs[p].data.id
        values == reqs[p].data.values
        snapshot == reqs[p].row[1]
    IN  /\ At(p, "updatePrisoner", "update")
        /\ IF \E f \in {"nic", "case_number"} :
                 HeldByAnother(prisoners, id, f, values, snapshot)
           THEN /\ reqs' = Throw(p, "Validation error")
                /\ UNCHANGED prisoners
           ELSE /\ prisoners' = SaveRow(prisoners, id, snapshot, values)
                /\ reqs' = Goto(p, "read")
        /\ UNCHANGED <<today, tz, users, works, prisons, behaviours, visits, last>>

\* return await getPrisonerById(prisonerId, userPrisonId, userRole)
UpdateRead(p) ==
    LET id == reqs[p].data.id
    IN  /\ At(p, "updatePrisoner", "read")
        /\ reqs' = IF checkPrisonAccess(reqs[p].caller.prisonId,
                                        prisoners[id].prison_id,
                                        reqs[p].caller.role)
                   THEN Throw(p, OK)
                   ELSE Throw(p, ROLLBACK_FINISHED)
        /\ UNCHANGED <<today, tz, store, last>>

\* --------------------------------- admissions and corrections in parallel
\* The Super Admin, who names the prison of an admission, and the Prison
\* Admin of prison 1.
Registrars == {c \in Callers : c.role # OFFICER /\ c.prisonId <= 1
                                /\ ~(c.role = PRISON_ADMIN /\ c.prisonId = 0)}

InitIdentity ==
    /\ InitStore
    /\ \A q \in PrisonIds : prisons[q].capacity = MaxCapacity
    /\ tz = 0
    /\ reqs = [p \in Procs |-> NoRequest]

\* Bodies of an admission: any nic with any case_number.  The prison_id of a
\* body is read for a Super Admin only.
Admissions ==
    {x \in RegisterData : /\ x.prison_id \in 0..NumPrisons
                          /\ x.expected_release_date = Null}

NextIdentity ==
    \/ \E p \in Procs, c \in Registrars :
          \E d \in {x \in Admissions :
                       c.role = SUPER_ADMIN \/ x.prison_id = 0} :
             RegisterBegin(p, d, c)
    \/ \E p \in Procs : RegisterFindPrison(p)
    \/ \E p \in Procs : RegisterCount(p)
    \/ \E p \in Procs : RegisterFindDuplicate(p)
    \/ \E p \in Procs : RegisterCreate(p)
    \/ \E p \in Procs, id \in PrisonerIds, d \in IdentityUpdates,
          c \in Registrars : UpdateBegin(p, id, d, c)
    \/ \E p \in Procs : UpdateFind(p)
    \/ \E p \in Procs : UpdateFindNic(p)
    \/ \E p \in Procs : UpdateFindCase(p)
    \/ \E p \in Procs : UpdateWrite(p)
    \/ \E p \in Procs : UpdateRead(p)
    \/ \E p \in Procs : Respond(p)

SpecIdentity == InitIdentity /\ [][NextIdentity]_vars

\* ---------------------------------------------------------------- properties
\* C10: after any series of registerPrisoner, transferPrisoner, updatePrisoner,
\* releasePrisoner, deletePrisoner and updatePrison commands, every prison
\* holds at most `capacity` prisoners with status Active.
C10_ActiveWithinCapacity ==
    \A q \in DOMAIN prisons :
        ActiveCount(prisoners, q) <= prisons[q].capacity

\* C5: a prisoner whose status is Released or Deceased keeps that status in
\* every later step.
C5_TerminalStatusKept ==
    [][\A p \in DOMAIN prisoners :
          prisoners[p].status \in {RELEASED, DECEASED}
              => prisoners'[p].status = prisoners[p].status]_vars

\* C6: transferPrisoner on a prisoner whose status is not Active is rejected
\* and leaves the row as it was; a transfer that succeeds leaves the prisoner
\* Active in the target prison.
C6_TransferNeedsActive ==
    [][(last'.op = "transferPrisoner" /\ last'.id \in DOMAIN prisoners)
          => /\ prisoners[last'.id].status # ACTIVE
                  => /\ last'.outcome # OK
                     /\ prisoners'[last'.id] = prisoners[last'.id]
             /\ last'.outcome = OK
                  => /\ prisoners'[last'.id].prison_id = last'.arg
                     /\ prisoners'[last'.id].status = ACTIVE]_vars

\* C1: under any interleaving of concurrent registerPrisoner and
\* transferPrisoner requests no prison holds more Active prisoners than its
\* capacity (of two concurrent admissions into a prison with one free place,
\* one fails).
C1_CapacityUnderConcurrency ==
    \A q \in DOMAIN prisons :
        ActiveCount(prisoners, q) <= prisons[q].capacity

RECURSIVE SumDays(_)
SumDays(S) ==
    IF S = {} THEN 0
    ELSE LET b == CHOOSE x \in S : TRUE
         IN  behaviours[b].sentence_adjustment_days + SumDays(S \ {b})

ApprovedOf(x) ==
    {b \in DOMAIN behaviours : /\ behaviours[b].prisoner_id = x
                               /\ behaviours[b].adjustment_status = APPROVED}

\* No approval stands between its read and its write.
Quiescent == \A p \in DOMAIN reqs : reqs[p].pc \in {"idle", "done"}

\* C2: however approvals of one record are interleaved, a prisoner with a
\* single Approved record has the initial expected release date plus that
\* record's days, and an approval succeeds only on a record it read as Pending.
C2_DeltaAppliedOnce ==
    /\ \A b \in DOMAIN behaviours :
          LET x == behaviours[b].prisoner_id
          IN  (ApprovedOf(x) = {b} /\ prisoners[x].expected_release_date # Null)
                 => prisoners[x].expected_release_date =
                       Some(ReleaseDay + behaviours[b].sentence_adjustment_days)
    /\ \A p \in DOMAIN reqs :
          (reqs[p].pc = "done" /\ reqs[p].outcome = OK)
              => reqs[p].row[1].adjustment_status = PENDING

\* The same with the handler's own day arithmetic in place of the sum.
C2_OneApplication ==
    \A b \in DOMAIN behaviours :
        LET x == behaviours[b].prisoner_id
        IN  (ApprovedOf(x) = {b} /\ prisoners[x].expected_release_date # Null)
               => prisoners[x].expected_release_date =
                     Some(AdjustedReleaseDate(ReleaseDay,
                             behaviours[b].sentence_adjustment_days, tz))

\* C8: with every approval finished, a prisoner's expected release date is
\* the initial date plus the days of all the prisoner's Approved records
\* (stated for a server at or east of UTC, where the day arithmetic is exact).
C8_NoApprovedDeltaLost ==
    (Quiescent /\ tz >= 0)
        => \A x \in DOMAIN prisoners :
              prisoners[x].expected_release_date # Null
                  => prisoners[x].expected_release_date =
                        Some(ReleaseDay + SumDays(ApprovedOf(x)))

\* Half-open windows [start, end) of two visits overlap.
WindowsOverlap(a, b) ==
    /\ a.visit_time_start < b.visit_time_end
    /\ a.visit_time_end > b.visit_time_start

\* C3: no two Scheduled visits of one prisoner on one date have overlapping
\* [visit_time_start, visit_time_end) windows.
C3_NoOverlappingScheduledVisits ==
    \A v \in DOMAIN visits, w \in DOMAIN visits :
        (/\ v # w
         /\ visits[v].status = SCHEDULED /\ visits[w].status = SCHEDULED
         /\ visits[v].prisoner_id = visits[w].prisoner_id
         /\ visits[v].visit_date = visits[w].visit_date)
            => ~WindowsOverlap(visits[v], visits[w])

\* The window a request asks for, as a visit.
Asked(prisonerId, visitDate, timeStart, timeEnd) ==
    [prisoner_id |-> prisonerId, visit_date |-> visitDate,
     visit_time_start |-> timeStart, visit_time_end |-> timeEnd,
     status |-> SCHEDULED]

\* Some Scheduled visit other than exclude, of the same prisoner on the same
\* date, has existing.start < new.end and existing.end > new.start.
HalfOpenConflict(new, exclude) ==
    \E v \in DOMAIN visits :
        /\ v # exclude
        /\ visits[v].status = SCHEDULED
        /\ visits[v].prisoner_id = new.prisoner_id
        /\ visits[v].visit_date = new.visit_date
        /\ WindowsOverlap(visits[v], new)

\* C9: scheduleVisit, and updateVisit leaving out the visit itself, answer
\* with the conflict error exactly when another Scheduled visit of the
\* prisoner on that date overlaps the asked window, taken half-open.
C9_ConflictIffHalfOpenOverlap ==
    /\ \A d \in VisitData, c \in Callers :
          ScheduleChecks(d, c) = OK =>
              (ScheduleOutcome(d, c) = ConflictError
                  <=> HalfOpenConflict(
                          Asked(d.prisoner_id, d.visit_date,
                                d.visit_time_start, d.visit_time_end), 0))
    /\ \A id \in VisitIds, d \in VisitUpdates, c \in Callers :
          UpdateVisitOutcome(id, d, c) \in {OK, ConflictError} =>
              (UpdateVisitOutcome(id, d, c) = ConflictError
                  <=> HalfOpenConflict(
                          Asked(visits[id].prisoner_id,
                                Given(d, "visit_date", visits[id].visit_date),
                                Given(d, "visit_time_start",
                                      visits[id].visit_time_start),
                                Given(d, "visit_time_end",
                                      visits[id].visit_time_end)), id))

\* Two requests have committed visits that are both Scheduled, for the same
\* prisoner and date, with overlapping windows.
BothCommitted(p, q) ==
    /\ p # q
    /\ reqs[p].op = "scheduleVisit" /\ reqs[q].op = "scheduleVisit"
    /\ reqs[p].outcome = OK /\ reqs[q].outcome = OK
    /\ visits[reqs[p].row[1]].prisoner_id = visits[reqs[q].row[1]].prisoner_id
    /\ visits[reqs[p].row[1]].visit_date = visits[reqs[q].row[1]].visit_date
    /\ WindowsOverlap(visits[reqs[p].row[1]], visits[reqs[q].row[1]])

\* C4: of two scheduleVisit requests in flight together for the same
\* prisoner and date with overlapping windows, at most one commits.
C4_OverlappingRequestsNotBothCommitted ==
    \A p \in Procs, q \in Procs : ~BothCommitted(p, q)

\* The step is an approveSentenceAdjustment that answered success.
Approved(id) ==
    /\ last'.op = "approveSentenceAdjustment"
    /\ last'.outcome = OK
    /\ last'.id = id

\* C11: an approval of a Pending record of n days for a prisoner whose
\* expected_release_date is D marks the record Approved with
\* adjustment_approved_at set and makes the date D + n; a null date stays null.
C11_ApproveMovesDateByDays ==
    [][\A id \in DOMAIN behaviours :
          Approved(id) =>
              LET p == behaviours[id].prisoner_id
                  n == behaviours[id].sentence_adjustment_days
                  D == prisoners[p].expected_release_date
              IN  /\ behaviours[id].adjustment_status = PENDING
                  /\ behaviours'[id].adjustment_status = APPROVED
                  /\ behaviours'[id].adjustment_approved_at # Null
                  /\ prisoners'[p].expected_release_date =
                        IF D = Null THEN Null ELSE Some(D[1] + n)]_vars

\* The caller passes checkPrisonAccess for the prison of the record's prisoner.
AuthorizedOver(id, caller) ==
    checkPrisonAccess(caller.prisonId,
                      prisoners[behaviours[id].prisoner_id].prison_id,
                      caller.role)

\* C12: rejectSentenceAdjustment on a Pending record, by a caller with access
\* to the prisoner's prison, marks the record Rejected and leaves every
\* prisoner's expected_release_date as it was.
C12_RejectMarksRejected ==
    [][\A id \in DOMAIN behaviours, c \in Callers :
          (/\ behaviours[id].adjustment_status = PENDING
           /\ AuthorizedOver(id, c)
           /\ rejectSentenceAdjustment(id, c))
              => /\ behaviours'[id].adjustment_status = REJECTED
                 /\ prisoners' = prisoners]_vars

NotPending ==
    "This behaviour record does not have a pending sentence adjustment"

\* C13: rejectSentenceAdjustment on an Approved record, by a caller with
\* access, fails with the not-pending error and leaves the record Approved
\* and the prisoners unchanged.
C13_RejectOfApprovedIsNotPending ==
    [][\A id \in DOMAIN behaviours, c \in Callers :
          (/\ behaviours[id].adjustment_status = APPROVED
           /\ AuthorizedOver(id, c)
           /\ rejectSentenceAdjustment(id, c))
              => /\ last'.outcome = NotPending
                 /\ behaviours' = behaviours
                 /\ prisoners' = prisoners]_vars

\* C14: on a work record whose payment_status is Paid, every updateWorkRecord
\* and every deleteWorkRecord fails and leaves the table as it was.
C14_PaidRecordIsFrozen ==
    [][\A id \in DOMAIN works, c \in Callers :
          works[id].payment_status = PAID =>
              /\ \A d \in WorkUpdates :
                    updateWorkRecord(id, d, c)
                        => last'.outcome # OK /\ works' = works
              /\ deleteWorkRecord(id, c)
                    => last'.outcome # OK /\ works' = works]_vars

C14_Witness ==
    /\ last.op \in {"updateWorkRecord", "deleteWorkRecord"}
    /\ last.id \in DOMAIN works
    /\ works[last.id].payment_status = PAID
    /\ last.outcome \in {"Cannot update work record with paid status",
                         "Cannot delete work record with paid status"}

TERMINAL == {RELEASED, DECEASED}

\* C15: actual_release_date is null while the prisoner has not become
\* Released or Deceased, is written by the step that makes the prisoner
\* Released or Deceased, and keeps its value in every later step.
C15_ActualReleaseDateSetOnce ==
    [][\A i \in DOMAIN prisoners :
          /\ prisoners[i].actual_release_date # Null
                => prisoners'[i].actual_release_date
                      = prisoners[i].actual_release_date
          /\ (/\ prisoners[i].actual_release_date = Null
              /\ prisoners'[i].actual_release_date # Null)
                => (/\ prisoners[i].status \notin TERMINAL
                    /\ prisoners'[i].status \in TERMINAL)
          /\ (/\ prisoners[i].status \notin TERMINAL
              /\ prisoners'[i].status \in TERMINAL)
                => prisoners'[i].actual_release_date # Null]_vars

\* The answers that are permission failures (the controllers send 403 for a
\* message that names access, and the role checks refuse the role).
DENIED ==
    {"You do not have access to this prisoner",
     "You do not have access to this behaviour record",
     "You do not have access to this visit",
     "You do not have access to this work record",
     "Only Prison Admin or Super Admin can delete prisoners",
     "Only Prison Admin or Super Admin can transfer prisoners",
     "Only Prison Admin or Super Admin can release prisoners"}

\* The caller is no Super Admin and prisoner p is held in a prison that is
\* not the caller's.
Foreign(c, p) ==
    /\ c.role # SUPER_ADMIN
    /\ p \in DOMAIN prisoners
    /\ prisoners[p].status = ACTIVE
    /\ prisoners[p].prison_id # c.prisonId

ApproveOutcome(id, caller) ==
    ApproveChecks(behaviours[id],
                  IncludedPrisoner(behaviours[id].prisoner_id, ApproveLoaded),
                  caller)

\* Every prisoner and behaviour record command of c on p is refused as a
\* permission failure and changes no table.
DeniedOnPrisoner(c, p) ==
    /\ \A d \in StatusUpdates \cup IdentityUpdates :
          /\ UpdatePrisonerOutcome(p, d, c) \in DENIED
          /\ updatePrisoner(p, d, c) => store' = store
    /\ \A r \in {"deceased", "released"} :
          /\ DeletePrisonerOutcome(p, c) \in DENIED
          /\ deletePrisoner(p, r, c) => store' = store
    /\ \A t \in PrisonIds :
          /\ TransferOutcome(p, t, c) \in DENIED
          /\ transferPrisoner(p, t, c) => store' = store
    /\ ReleaseOutcome(p, c) \in DENIED
    /\ releasePrisoner(p, c) => store' = store
    /\ \A d \in {x \in BehaviourData : x.prisoner_id = p} :
          /\ CreateBehaviourOutcome(d, c) \in DENIED
          /\ createBehaviourRecord(d, c) => store' = store
    /\ \A id \in {b \in DOMAIN behaviours : behaviours[b].prisoner_id = p} :
          /\ \A d \in BehaviourUpdates :
                /\ UpdateBehaviourOutcome(id, d, c) \in DENIED
                /\ updateBehaviourRecord(id, d, c) => store' = store
          /\ ApproveOutcome(id, c) \in DENIED
          /\ approveSentenceAdjustment(id, c) => store' = store
          /\ RejectOutcome(id, c) \in DENIED
          /\ rejectSentenceAdjustment(id, c) => store' = store

\* The same for the work record and visit commands.
DeniedOnRecords(c, p) ==
    /\ \A d \in {x \in WorkData : x.prisoner_id = p} :
          /\ CreateWorkOutcome(d, c) \in DENIED
          /\ createWorkRecord(d, c) => store' = store
    /\ \A id \in {w \in DOMAIN works : works[w].prisoner_id = p} :
          /\ UpdateWorkOutcome(id, c) \in DENIED
          /\ \A d \in WorkUpdates : updateWorkRecord(id, d, c) => store' = store
          /\ DeleteWorkOutcome(id, c) \in DENIED
          /\ deleteWorkRecord(id, c) => store' = store
          /\ ApprovePaymentOutcome(id, c) \in DENIED
          /\ approvePayment(id, c) => store' = store
    /\ \A d \in {x \in VisitData : x.prisoner_id = p} :
          /\ ScheduleOutcome(d, c) \in DENIED
          /\ scheduleVisit(d, c) => store' = store
    /\ \A id \in {v \in DOMAIN visits : visits[v].prisoner_id = p} :
          /\ \A d \in VisitUpdates :
                /\ UpdateVisitOutcome(id, d, c) \in DENIED
                /\ updateVisit(id, d, c) => store' = store
          /\ \A st \in VISIT_STATUS :
                /\ UpdateVisitStatusOutcome(id, st, c) \in DENIED
                /\ updateVisitStatus(id, st, c) => store' = store
          /\ DeleteVisitOutcome(id, c) \in DENIED
          /\ deleteVisit(id, c) => store' = store

\* C16: checkPrisonAccess is true exactly for a Super Admin or for the
\* caller's own prison, and every command of a caller who is no Super Admin
\* on a prisoner held in another prison is refused as a permission failure
\* and changes nothing in the store.
C16_OtherPrisonIsDenied ==
    [][/\ \A c \in Callers, q \in PrisonIds :
             checkPrisonAccess(c.prisonId, q, c.role)
                 <=> (c.role = SUPER_ADMIN \/ c.prisonId = q)
       /\ \A c \in Callers, p \in DOMAIN prisoners :
             Foreign(c, p) => DeniedOnPrisoner(c, p) /\ DeniedOnRecords(c, p)]_vars

\* A caller who is no Super Admin and has no prison assigned.
Unassigned(c) == c.role # SUPER_ADMIN /\ c.prisonId = 0

\* C17: a caller who is no Super Admin and has no prison can register no
\* prisoner, can read or change no prisoner, and gets no prisoner of any
\* prison from the listing.
C17_UnassignedCallerGetsNothing ==
    \A c \in {x \in Callers : Unassigned(x)} :
        /\ \A d \in RegisterData : OK \notin RegisterOutcomes(d, c)
        /\ \A p \in DOMAIN prisoners :
              /\ GetPrisonerOutcome(p, c) # OK
              /\ \A d \in StatusUpdates \cup IdentityUpdates :
                    UpdatePrisonerOutcome(p, d, c) # OK
              /\ DeletePrisonerOutcome(p, c) # OK
              /\ ReleaseOutcome(p, c) # OK
              /\ \A t \in PrisonIds : TransferOutcome(p, t, c) # OK
        /\ \A q \in ListQueries : getAllPrisoners(c, q) = {}

\* C18: the two writes of an approval become visible together or not at all.
\* A step that changes a prisoner's expected_release_date leaves a record of
\* that prisoner Approved; a step that turns a record Approved writes, when
\* the prisoner's date is non-null, the date the same request computed; and
\* an approval that fails after its first update changes nothing.
Committing(p, id) ==
    /\ At(p, "approveSentenceAdjustment", "commit")
    /\ reqs[p].data = id
    /\ reqs'[p].outcome = OK

C18_ApprovalWritesTogether ==
    [][/\ \A i \in DOMAIN prisoners :
             prisoners'[i].expected_release_date
                 # prisoners[i].expected_release_date
             => \E id \in DOMAIN behaviours :
                   /\ behaviours[id].prisoner_id = i
                   /\ behaviours'[id].adjustment_status = APPROVED
                   /\ \E p \in Procs : Committing(p, id)
       /\ \A id \in DOMAIN behaviours :
             (/\ behaviours[id].adjustment_status # APPROVED
              /\ behaviours'[id].adjustment_status = APPROVED)
             => \E p \in Procs :
                   /\ Committing(p, id)
                   /\ reqs[p].other[1].expected_release_date # Null
                      => prisoners'[behaviours[id].prisoner_id]
                             .expected_release_date
                         = ApprovePrisonerValues(reqs[p].row[1],
                               reqs[p].other[1]).expected_release_date
       /\ \A p \in Procs :
             (reqs[p].outcome # ROLLED_BACK /\ reqs'[p].outcome = ROLLED_BACK)
             => UNCHANGED store
      ]_vars

\* An approval of a record whose prisoner has a release date was rolled back
\* after its updates: the record is still Pending and the date is the one read.
C18_Witness ==
    \E p \in Procs :
        /\ reqs[p].outcome = ROLLED_BACK
        /\ reqs[p].other[1].expected_release_date # Null
        /\ behaviours[reqs[p].data].adjustment_status = PENDING
        /\ prisoners[reqs[p].row[1].prisoner_id].expected_release_date
               = reqs[p].other[1].expected_release_date

\* C19: a handler that answers with an error has changed nothing in the store
\* (so a handler whose write was committed answers with success).
C19_ErrorMeansNoChange ==
    [][last'.outcome # OK => UNCHANGED store]_vars

\* C20: no two prisoners share a nic or a case_number, whatever the order in
\* which the steps of registerPrisoner and updatePrisoner calls are taken, and
\* a call made with a value that another prisoner holds is rejected: with the
\* duplicate error, unless an earlier check of the handler fails first.
DUPLICATE ==
    {"Prisoner with this NIC already exists",
     "Prisoner with this case number already exists"}

C20_NicAndCaseNumberUnique ==
    /\ \A a, b \in DOMAIN prisoners :
          a # b => /\ prisoners[a].nic # prisoners[b].nic
                   /\ prisoners[a].case_number # prisoners[b].case_number
    /\ \A c \in Registrars, d \in Admissions :
          DuplicateRows(prisoners, d) # {}
          => RegisterOutcomes(d, c)
                \subseteq DUPLICATE \cup {"Prison ID is required",
                                          "Prison not found",
                                          "Prison has reached maximum capacity"}
    /\ \A c \in Registrars, id \in DOMAIN prisoners, d \in IdentityUpdates :
          (\E f \in DOMAIN d :
              HeldByAnother(prisoners, id, f, d, prisoners[id]))
          => UpdatePrisonerOutcome(id, d, c)
                \in DUPLICATE \cup {"You do not have access to this prisoner"}

\* Two prisoners are registered; one call lost a race against the call that
\* took its value, and another was refused a value it found taken.
C20_Witness ==
    /\ Cardinality(DOMAIN prisoners) = MaxPrisoners
    /\ \E p \in Procs : reqs[p].outcome = "Validation error"
    /\ \E p \in Procs : reqs[p].outcome \in DUPLICATE

C22_AdmissionNeedsActivePrison ==
    [][(last'.op = "registerPrisoner" /\ last'.outcome = OK
        /\ prisoners' # prisoners)
       => prisons[prisoners'[last'.id].prison_id].is_active]_vars

\* C23: updatePrison by the Super Admin with a new capacity for an existing
\* prison is rejected, the prison left as it was, when the capacity is below
\* the prison's count of Active prisoners, and is accepted and stored when
\* the capacity is that count or more.
C23_CapacityNotBelowOccupancy ==
    [][\A q \in DOMAIN prisons, d \in CapacityUpdates :
          (last'.op = "updatePrison" /\ last'.id = q
           /\ updatePrison(q, d, SUPER_ADMIN))
          => IF d.capacity < ActiveCount(prisoners, q)
             THEN /\ last'.outcome # OK
                  /\ prisons' = prisons
             ELSE /\ last'.outcome = OK
                  /\ prisons'[q].capacity = d.capacity
                  /\ prisons'[q].is_active = prisons[q].is_active]_vars

\* A capacity below the occupancy was refused for a prison that holds an
\* Active prisoner.
C23_Witness ==
    /\ last.op = "updatePrison"
    /\ last.outcome = "Cannot reduce capacity below current occupancy"
    /\ ActiveCount(prisoners, last.id) > 0
    /\ prisons[last.id].capacity > 0

\* C29: deletePrison by the Super Admin on an existing prison is rejected with
\* the count error, is_active unchanged, when the prison holds an Active
\* prisoner or has an active user, and sets is_active to false otherwise.
C29_DeactivatesOnlyWhenEmpty ==
    [][\A q \in DOMAIN prisons :
          (last'.op = "deletePrison" /\ last'.id = q
           /\ deletePrison(q, SUPER_ADMIN))
          => IF ActiveCount(prisoners, q) > 0
             THEN /\ last'.outcome = "Cannot delete prison with active prisoners"
                  /\ prisons' = prisons
             ELSE IF ActiveUsers(q) > 0
             THEN /\ last'.outcome
                        = "Cannot delete prison with active staff members"
                  /\ prisons' = prisons
             ELSE /\ last'.outcome = OK
                  /\ ~prisons'[q].is_active]_vars

\* C26: in a bulk approval an invalid id (missing, of another prison, already
\* Paid) does not block the rest: every Pending record of the list that the
\* caller has access to ends Paid, every other record is left as it was,
\* each id that failed has its own error, and approved plus failed is the
\* length of the list.
C26_BulkApprovesTheValidRest ==
    [][last'.op = "bulkApprovePayments"
       => LET ids == last'.ids
              c == last'.caller
          IN /\ \A i \in DOMAIN ids :
                   IF /\ WorkFound(ids[i])
                      /\ works[ids[i]].payment_status = PAYMENT_PENDING
                      /\ checkPrisonAccess(c.prisonId,
                            prisoners[works[ids[i]].prisoner_id].prison_id,
                            c.role)
                   THEN /\ works'[ids[i]].payment_status = PAID
                        /\ i \notin DOMAIN BulkErrors(ids, c)
                   ELSE /\ i \in DOMAIN BulkErrors(ids, c)
                        /\ ids[i] \in DOMAIN works
                           => works'[ids[i]] = works[ids[i]]
             /\ \A w \in DOMAIN works :
                   (\A i \in DOMAIN ids : ids[i] # w) => works'[w] = works[w]
             /\ last'.total = Len(ids)
             /\ last'.arg + last'.failed = last'.total]_vars

\* A bulk approval of two ids approved one and reported the other.
C26_Witness ==
    /\ last.op = "bulkApprovePayments"
    /\ last.arg = 1
    /\ last.failed = 1
    /\ \E w \in DOMAIN works : works[w].payment_status = PAID
    /\ \E w \in DOMAIN works : works[w].payment_status = PAYMENT_PENDING

\* C24: however approvals, updates and deletions of work records are
\* interleaved, a Pending record has no payment date, a Paid record keeps
\* its status and its payment date, and an approval is answered with
\* success only when no other approval has paid the record before it.
C24_PaidAtMostOnce ==
    [][/\ \A w \in DOMAIN works :
             /\ works[w].payment_status = PAYMENT_PENDING
                => works[w].payment_date = Null
             /\ works[w].payment_status = PAID
                => /\ works'[w].payment_status = PAID
                   /\ works'[w].payment_date = works[w].payment_date
       /\ \A p \in Procs :
             (At(p, "approvePayment", "update") /\ reqs'[p].pc = "read")
                => works[reqs[p].data.id].payment_status # PAID]_vars

\* C25: a behaviour record is created only for an Active prisoner, the new
\* record is Pending when its sentence_adjustment_days is not zero and N/A
\* when it is zero, and a record that is N/A keeps that status whatever is
\* approved or rejected.
C25_CreatedStatusFollowsDays ==
    [][/\ (last'.op = "createBehaviourRecord" /\ last'.outcome = OK
           /\ behaviours' # behaviours)
          => LET new == behaviours'[last'.id]
             IN  /\ prisoners[new.prisoner_id].status = ACTIVE
                 /\ new.adjustment_status =
                       IF new.sentence_adjustment_days # 0
                       THEN PENDING ELSE NOT_APPLICABLE
       /\ \A b \in DOMAIN behaviours :
             behaviours[b].adjustment_status = NOT_APPLICABLE
                => behaviours'[b].adjustment_status = NOT_APPLICABLE]_vars

\* C27: an Approved behaviour record is neither updated nor deleted: an
\* update or a deletion of it is answered with an error, and the record stays
\* in the table as it is, whatever else is created, approved or deleted.
C27_ApprovedRecordStays ==
    [][\A b \in DOMAIN behaviours :
          behaviours[b].adjustment_status = APPROVED
             => /\ behaviours'[b] = behaviours[b]
                /\ (last'.id = b /\ last' # last
                    /\ last'.op \in {"updateBehaviourRecord",
                                     "deleteBehaviourRecord"})
                   => last'.outcome # OK]_vars

\* The deletion of an Approved record was refused.
C27_Witness ==
    /\ last.op = "deleteBehaviourRecord"
    /\ last.id \in DOMAIN behaviours
    /\ behaviours[last.id].adjustment_status = APPROVED
    /\ last.outcome =
          "Cannot delete behaviour record with approved sentence adjustment"
    /\ \E x \in DOMAIN prisoners :
          prisoners[x].expected_release_date \notin {Null, Some(ReleaseDay)}

\* C28: a caller who is not a Super Admin admits into the caller's own prison
\* only: whatever prison_id the body carries, the capacity check of the
\* admission counts the Active prisoners of the caller's prison against that
\* prison's capacity, and the prisoner created is in the caller's prison.
C28_AdmitsIntoOwnPrison ==
    [][\A p \in Procs :
          (reqs[p].op = "registerPrisoner"
           /\ reqs[p].caller.role # SUPER_ADMIN)
          => LET own == reqs[p].caller.prisonId
             IN  /\ (At(p, "registerPrisoner", "count")
                     /\ reqs'[p].pc = "findDuplicate")
                    => /\ own \in DOMAIN prisons
                       /\ reqs[p].other = Some(prisons[own])
                       /\ ActiveCount(prisoners, own) < prisons[own].capacity
                 /\ (At(p, "registerPrisoner", "create")
                     /\ reqs'[p].outcome = OK)
                    => prisoners'[NextId(prisoners)].prison_id = own]_vars

\* A Prison Admin's admission whose body named another prison succeeded.
C28_Witness ==
    \E p \in Procs :
        /\ reqs[p].op = "registerPrisoner"
        /\ reqs[p].pc = "done"
        /\ reqs[p].outcome = OK
        /\ reqs[p].caller.role # SUPER_ADMIN
        /\ reqs[p].data.prison_id \notin {0, reqs[p].caller.prisonId}
        /\ \E x \in DOMAIN prisoners :
              /\ prisoners[x].nic = reqs[p].data.nic
              /\ prisoners[x].prison_id = reqs[p].caller.prisonId

\* C30: approveVisit succeeds only on a visit whose approved_by holds no
\* user; scheduleVisit stores the scheduling user there, so no approveVisit
\* call succeeds on a visit that scheduleVisit created: each is answered with
\* an error ('Visit is already approved' when the caller has access to the
\* visit) and leaves the visits as they are.
C30_ScheduledVisitIsNeverApproved ==
    [][\A id \in VisitIds, c \in Callers :
          (last'.op = "approveVisit" /\ last'.id = id /\ approveVisit(id, c))
          => /\ last'.outcome = OK => visits[id].approved_by = Null
             /\ Found(visits, id)
                => /\ visits[id].approved_by # Null
                   /\ last'.outcome # OK
                   /\ visits' = visits
                   /\ checkPrisonAccess(c.prisonId,
                         prisoners[visits[id].prisoner_id].prison_id, c.role)
                      => last'.outcome = "Visit is already approved"]_vars

\* An approval of a scheduled visit was refused as already approved.
C30_Witness ==
    /\ last.op = "approveVisit"
    /\ last.outcome = "Visit is already approved"
    /\ Found(visits, last.id)
    /\ visits[last.id].status = SCHEDULED

====
